---- MODULE Spec2Model ----
(***************************************************************************)
(* A model of BenchmarkEvaluator                                           *)
(* (src/src/autogluon/bench/eval/evaluation/benchmark_evaluator.py).       *)
(*                                                                         *)
(* A result table (a pandas DataFrame) is a sequence of rows; a row is a   *)
(* record of the columns the evaluator reads.  metric_error is a float in  *)
(* the source; here it is an integer count of 1e-9, so that the tolerance  *)
(* -1/1e8 is -10 and rounding to 5 decimals is rounding to a multiple of   *)
(* 10^4.  None is the empty sequence and a given value v is <<v>>, except  *)
(* for framework_nan_fill, whose None is the string "None".                *)
(*                                                                         *)
(* load_data runs as one step per stage of its body, in the order of the   *)
(* source lines (StageOrder).  An argument of the call is drawn when the   *)
(* code first reads it and is held only as long as the code reads it.      *)
(*                                                                         *)
(* Ten more components have their own variables and specification, and     *)
(* stand still under the specification of any other component:             *)
(*   SpecClean     the evaluator's task metadata and inference times       *)
(*                 (task_metadata, filter_datasets, _load_results lines    *)
(*                 161-172, _clean_data);                                  *)
(*   SpecDownload  download of src/src/autogluon/bench/datasets/utils.py;  *)
(*   SpecJobs      get_job_status of src/src/autogluon/bench/              *)
(*                 runbenchmarks.py, with AWS Batch as its environment;    *)
(*   SpecRun       run_benchmark of the same file;                         *)
(*   SpecMain      run of the same file, the command that starts a         *)
(*                 benchmark;                                              *)
(*   SpecFilter    filter_errors of the evaluator, called on its own;      *)
(*   SpecColumns   the evaluator's column lists and the projection that    *)
(*                 ends load_data;                                         *)
(*   SpecInfer     the evaluator's _update_infer_batch_size;               *)
(*   SpecExec      run of src/src/autogluon/bench/frameworks/tabular_reg/  *)
(*                 exec.py;                                                *)
(*   SpecStack     the CDK app and stacks of src/tests/unittests/cloud/    *)
(*                 aws/test_stack.py.                                      *)
(***************************************************************************)
EXTENDS Integers, Sequences, FiniteSets, TLC

\* ------------------------------------------------------------------ bounds

\* The result files hold at most MaxRows rows in all.
MaxRows == 2

\* ------------------------------------------------------- program constants

\* eps = -1 / 1e8, in units of 1e-9.
Eps == -10

\* round_error_decimals = 5: metric_error is rounded to a multiple of 1e-5,
\* which is 10^4 units of 1e-9.
RoundUnit == 10000

\* ------------------------------------------------------------------ values

None == <<>>

Some(v) == <<v>>

Frameworks == {"X", "baseline"}

Datasets == {"d1", "d2"}

Folds == {0, 1}

Metrics == {"auc", "rmse"}

MetricOf(d) == IF d = "d1" THEN "auc" ELSE "rmse"

ProblemTypeOf(d) == IF d = "d1" THEN "binary" ELSE "regression"

\* The metric_error a run of framework f on fold k of dataset d reports:
\* a different value in every cell, also after rounding.
ErrOf(f, d, k) ==
    123456700 + (IF f = "X" THEN 0 ELSE 100000000)
              + (IF d = "d1" THEN 0 ELSE 200000000) + k * 10000000

Row(f, d, k, m, e) ==
    [framework |-> f, dataset |-> d, fold |-> k, metric |-> m,
     metric_error |-> e, problem_type |-> ProblemTypeOf(d)]

\* One result per (framework, dataset, fold), as a benchmark run writes it.
CleanRows == {Row(f, d, k, MetricOf(d), ErrOf(f, d, k)) :
                 f \in Frameworks, d \in Datasets, k \in Folds}

\* Rows a second result file may add: a rerun of a cell with another value,
\* a result scored with another metric, and metric errors of -1e-9, -1e-8 and
\* -1.0.
OddRows ==
    { Row("X", "d1", 0, "auc", 900000000),
      Row("baseline", "d2", 1, "auc", 500000000),
      Row("baseline", "d2", 1, "rmse", -1),
      Row("X", "d2", 1, "rmse", -10),
      Row("baseline", "d2", 1, "rmse", -1000000000) }

RowUniverse == CleanRows \cup OddRows

Key(r) == <<r.framework, r.dataset, r.fold, r.metric>>

\* The order in which the cells are written to the files; rows of one cell may
\* come in any order.
CellRank(r) ==
    (IF r.framework = "X" THEN 0 ELSE 4) + (IF r.dataset = "d1" THEN 0 ELSE 2)
        + r.fold

InputTables ==
    UNION { { t \in [1..n -> RowUniverse] :
                \A i \in 1..n, j \in 1..n :
                    i < j => CellRank(t[i]) <= CellRank(t[j]) } :
            n \in 0..MaxRows }

Range(s) == {s[i] : i \in 1..Len(s)}

\* ---------------------------------------------------------- table helpers

\* results_raw[column].unique(): the values in order of first appearance.
Unique(s) ==
    LET F[i \in 0..Len(s)] ==
            IF i = 0 THEN <<>>
            ELSE IF \E j \in 1..(i - 1) : s[j] = s[i] THEN F[i - 1]
                 ELSE Append(F[i - 1], s[i])
    IN  F[Len(s)]

FrameworksOf(t) == {t[i].framework : i \in 1..Len(t)}

DatasetsOf(t) == {t[i].dataset : i \in 1..Len(t)}

\* results_raw[~results_raw[DATASET].isin(banned_datasets)]
drop_banned(t, banned) ==
    IF banned = None THEN t
    ELSE SelectSeq(t, LAMBDA r : r.dataset \notin Range(banned[1]))

\* drop_duplicates left out: every row stays.
drop_duplicates_keep_all(t) == t

\* drop_duplicates with keep="last": of the rows with one key the last stays.
drop_duplicates_keep_last(t) ==
    LET F[i \in 0..Len(t)] ==
            IF i = 0 THEN <<>>
            ELSE IF \E j \in (i + 1)..Len(t) : Key(t[j]) = Key(t[i])
                 THEN F[i - 1]
                 ELSE Append(F[i - 1], t[i])
    IN  F[Len(t)]

\* results_raw.drop_duplicates(subset=[FRAMEWORK, DATASET, FOLD, METRIC]):
\* of the rows with one key the first stays.
drop_duplicates(t) ==
    LET F[i \in 0..Len(t)] ==
            IF i = 0 THEN <<>>
            ELSE IF \E j \in 1..(i - 1) : Key(t[j]) = Key(t[i]) THEN F[i - 1]
                 ELSE Append(F[i - 1], t[i])
    IN  F[Len(t)]

\* _assert_unique_metric left out: it never raises.
assert_unique_metric_never(t) == FALSE

\* _assert_unique_metric raises when the (dataset, metric) pairs of the table
\* give some dataset more than one metric.
assert_unique_metric_raises(t) ==
    \E i \in 1..Len(t), j \in 1..Len(t) :
        t[i].dataset = t[j].dataset /\ t[i].metric # t[j].metric

\* results_raw[METRIC_ERROR].min() < x; the minimum of an empty column is NaN,
\* which is below nothing.
min_below(t, x) == \E i \in 1..Len(t) : t[i].metric_error < x

\* results_raw.loc[results_raw[METRIC_ERROR] < 0, METRIC_ERROR] = 0
clamp_negative(t) ==
    [i \in 1..Len(t) |->
        IF t[i].metric_error < 0 THEN [t[i] EXCEPT !.metric_error = 0]
        ELSE t[i]]

\* _check_results_valid without line 212: the negative values within the
\* tolerance are reported and left as they are.
check_results_valid_no_clamp(t) ==
    IF assert_unique_metric_raises(t)
    THEN [error |-> "AssertionError: multiple metrics", table |-> t]
    ELSE IF min_below(t, Eps)
         THEN [error |-> "AssertionError: negative metric_error", table |-> t]
         ELSE [error |-> "", table |-> t]

\* _check_results_valid: the exception it raises ("" when none) and the table
\* it leaves.
check_results_valid(t) ==
    IF assert_unique_metric_raises(t)
    THEN [error |-> "AssertionError: multiple metrics", table |-> t]
    ELSE IF min_below(t, 0)
         THEN IF min_below(t, Eps)
              THEN [error |-> "AssertionError: negative metric_error",
                    table |-> t]
              ELSE [error |-> "", table |-> clamp_negative(t)]
         ELSE [error |-> "", table |-> t]

\* _load_results without the call of _check_results_valid at line 188.
load_results_unchecked(paths, banned) ==
    [error |-> "", table |-> drop_duplicates(drop_banned(paths, banned))]

\* _load_results with clean_data=False and use_tid_as_dataset_name=False.
load_results(paths, banned) ==
    check_results_valid(drop_duplicates(drop_banned(paths, banned)))

\* self.filter_errors(results_raw, folds) with frameworks=None: one pass per
\* framework of the table, each keeping the datasets on which that framework
\* has len(folds) rows.
RowsOf(t, f, d) ==
    Cardinality({i \in 1..Len(t) : t[i].framework = f /\ t[i].dataset = d})

RECURSIVE filter_errors_loop(_, _, _)
filter_errors_loop(t, fs, n) ==
    IF fs = <<>> THEN t
    ELSE LET f == Head(fs)
             \* value_counts() lists the datasets on which f has a row
             counted == {d \in DatasetsOf(t) : RowsOf(t, f, d) > 0}
             datasets_keep == {d \in counted : RowsOf(t, f, d) = n}
         IN  filter_errors_loop(
                 SelectSeq(t, LAMBDA r : r.dataset \in datasets_keep),
                 Tail(fs), n)

\* filter_errors with len(folds) defined for folds=None.
filter_errors_raises_never(t, fo) == FALSE

\* len(folds) raises TypeError when folds is None and the loop body runs.
filter_errors_raises(t, fo) == fo = None /\ Len(t) > 0

filter_errors(t, fo) ==
    filter_errors_loop(t, Unique([i \in 1..Len(t) |-> t[i].framework]),
                       IF fo = None THEN 0 ELSE Len(fo[1]))

\* results_raw[results_raw["framework"].isin(frameworks)]
filter_frameworks(t, fw) ==
    SelectSeq(t, LAMBDA r : r.framework \in Range(fw))

\* Series.round with the digits below the fifth decimal cut off instead of
\* rounded.
round_error_truncate(e) == (e \div RoundUnit) * RoundUnit

\* results_raw[METRIC_ERROR].round(decimals=5): to the nearest multiple of
\* RoundUnit, a tie to the even one.
round_error(e) ==
    LET q == e \div RoundUnit
        r == e % RoundUnit
    IN  IF 2 * r > RoundUnit \/ (2 * r = RoundUnit /\ q % 2 = 1)
        THEN (q + 1) * RoundUnit
        ELSE q * RoundUnit

round_table(t) ==
    [i \in 1..Len(t) |->
        [t[i] EXCEPT !.metric_error = round_error(t[i].metric_error)]]

\* ------------------------------------------- preprocess.preprocess_utils
\* The three functions load_data imports from preprocess_utils are not among
\* the source files; they are modelled from the specification: a fill gives a
\* framework that has no result on a (dataset, fold) the result of the
\* reference framework, or the worst result observed, on that same
\* (dataset, fold); the conversion makes every fold a dataset of its own.

HasResult(t, f, d, k) ==
    \E i \in 1..Len(t) :
        t[i].framework = f /\ t[i].dataset = d /\ t[i].fold = k

\* A fill that takes one value, the first of `source`, for every dataset.
missing_rows_one_value(t, source, f) ==
    LET lacking == SelectSeq(source,
                       LAMBDA r : ~HasResult(t, f, r.dataset, r.fold))
    IN  [i \in 1..Len(lacking) |->
            [lacking[i] EXCEPT !.framework = f,
                               !.metric_error = source[1].metric_error]]

\* The rows of `source` that framework f lacks in t, as rows of f.
missing_rows(t, source, f) ==
    LET lacking == SelectSeq(source,
                       LAMBDA r : ~HasResult(t, f, r.dataset, r.fold))
    IN  [i \in 1..Len(lacking) |-> [lacking[i] EXCEPT !.framework = f]]

fill_from(t, source, to_fill) ==
    LET F[i \in 0..Len(to_fill)] ==
            IF i = 0 THEN t
            ELSE F[i - 1] \o missing_rows(t, source, to_fill[i])
    IN  F[Len(to_fill)]

frameworks_to_fill(t, fw) ==
    IF fw = None THEN Unique([i \in 1..Len(t) |-> t[i].framework]) ELSE fw[1]

fill_missing_results_with_default(framework_nan_fill, fw, t) ==
    fill_from(t, SelectSeq(t, LAMBDA r : r.framework = framework_nan_fill),
              frameworks_to_fill(t, fw))

\* The worst result on each (dataset, fold) among the frameworks considered:
\* the first row with the largest metric_error.
worst_rows(t, fw) ==
    LET considered == IF fw = None THEN t
                      ELSE SelectSeq(t, LAMBDA r : r.framework \in Range(fw[1]))
        IsWorst(i) ==
            \A j \in 1..Len(considered) :
                (considered[j].dataset = considered[i].dataset
                    /\ considered[j].fold = considered[i].fold)
                => (considered[j].metric_error < considered[i].metric_error
                    \/ (considered[j].metric_error = considered[i].metric_error
                        /\ i <= j))
        F[i \in 0..Len(considered)] ==
            IF i = 0 THEN <<>>
            ELSE IF IsWorst(i) THEN Append(F[i - 1], considered[i])
                 ELSE F[i - 1]
    IN  F[Len(considered)]

fill_missing_results_with_worst(fw, t) ==
    fill_from(t, worst_rows(t, fw), frameworks_to_fill(t, fw))

\* dataset becomes "<dataset>_<fold>" and fold becomes 0.
convert_folds_into_separate_datasets(t) ==
    [i \in 1..Len(t) |->
        [t[i] EXCEPT !.dataset = t[i].dataset \o "_" \o ToString(t[i].fold),
                     !.fold = 0]]

\* ------------------------------------------------------------------- state

VARIABLES
    pc,               \* "new", "ready", "load_data", "returned", "raised"
    error,            \* the exception raised, "" when none
    args,             \* the constructor's arguments, as passed
    self,             \* the evaluator's fields
    raw,              \* the rows of the result files at `paths`, in load order
    banned_datasets,  \* load_data's argument, while the code still reads it
    folds,            \* load_data's `folds`
    frameworks,       \* load_data's `frameworks`
    treat_folds_as_datasets,
    results_raw,      \* load_data's `results_raw`
    ip,               \* the index in StageOrder of the next stage
    stage,            \* the last stage whose body ran, "" when none yet
    fill_applied,     \* "none", "default" or "worst": the fill load_data ran
    prefill,          \* the table the fill stage was entered with
    round_error_decimals  \* self.round_error_decimals, once line 264 read it

evalvars == <<pc, error, args, self, raw, banned_datasets, folds, frameworks,
              treat_folds_as_datasets, results_raw, ip, stage, fill_applied,
              prefill, round_error_decimals>>

\* The task metadata and the inference times of an evaluator that is given a
\* task-metadata DataFrame.
VARIABLES
    cpc,                  \* "ready", "line166", "line170", "line173", "raised"
    cerror,               \* the exception raised, "" when none
    task_metadata,        \* the DataFrame object held in self._task_metadata
    task_metadata_given,  \* that DataFrame as the caller built it
    convert_infer_time_to_per_row,
    clean_data,           \* load_data's argument
    file_results,         \* the table load_results_raw returned
    cresults,             \* _load_results' results_raw
    cret                  \* what the last call that returned gave back

cleanvars == <<cpc, cerror, task_metadata, task_metadata_given,
               convert_infer_time_to_per_row, clean_data, file_results,
               cresults, cret>>

\* download(url, path, overwrite, sha1_hash, retries) of datasets/utils.py and
\* the file at its destination.
VARIABLES
    dpc,            \* "call", "loop", "returned", "raised"
    derror,         \* the exception raised, "" when none
    dargs,          \* overwrite, sha1_hash and retries as passed
    dest_file,      \* the content of the file at fname, None when there is none
    dest_at_call,   \* dest_file when download was called
    dirname_exists, \* whether the directory of fname exists
    retries,        \* the local `retries`
    attempts,       \* the number of passes through the loop body so far
    fetched         \* the content of the last temporary file written

dlvars == <<dpc, derror, dargs, dest_file, dest_at_call, dirname_exists,
            retries, attempts, fetched>>

\* get_job_status of runbenchmarks.py and the AWS Batch jobs it asks about.
VARIABLES
    jpc,          \* "call", "describe", "returned", "raised"
    jerror,       \* the exception raised, "" when none
    job_ids,      \* the argument job_ids, None when not given
    job_status,   \* the status AWS Batch holds for each job
    status_dict,  \* the local status_dict; "absent" for a key it lacks
    ji            \* the number of jobs the for loop has been through

jobvars == <<jpc, jerror, job_ids, job_status, status_dict, ji>>

\* run_benchmark of runbenchmarks.py and the adapter it drives.
VARIABLES
    rpc,             \* "call", "setup", "run", "save_configs", "upload",
                     \* "returned", "raised"
    rerror,          \* the exception raised, "" when none
    configs,         \* the argument configs
    benchmark,       \* the class of the adapter created, None before
    benchmark_name,  \* the local benchmark_name
    calls            \* the adapter methods called so far, in order

runvars == <<rpc, rerror, configs, benchmark, benchmark_name, calls>>

\* filter_errors(results_raw, folds, frameworks) called on its own.
VARIABLES
    fe_pc,           \* "call", "returned", "permuted"
    fe_results_raw,  \* the argument results_raw
    fe_folds,        \* the argument folds, a list
    fe_frameworks,   \* the argument frameworks, None when omitted
    fe_ret,          \* the table the call returned, None before
    fe_permuted,     \* the framework list of a second call on the same table
    fe_permuted_ret  \* the table the second call returned, None before

filtervars == <<fe_pc, fe_results_raw, fe_folds, fe_frameworks, fe_ret,
                fe_permuted, fe_permuted_ret>>

\* run of frameworks/tabular_reg/exec.py from line 263 on: the loop over the
\* test datasets and the metrics files it writes.
VARIABLES
    xpc,             \* "call", "loop", "returned", "raised"
    xerror,          \* the exception raised, "" when none
    framework_arg,   \* the argument framework as passed, a list of tokens
    framework,       \* the local framework, which line 286 rebinds
    version,         \* the local version, None before line 286 or 288
    constraint,      \* the argument constraint
    test_data_dict,  \* the names of the test datasets still to evaluate
    test_names,      \* the names of all test datasets of the run
    written          \* the calls of save_metrics that wrote a file, in order

execvars == <<xpc, xerror, framework_arg, framework, version, constraint,
              test_data_dict, test_names, written>>

\* The column lists of BenchmarkEvaluator.__init__ and the projection that
\* ends load_data.
VARIABLES
    colpc,                 \* "new", "ready", "returned", "raised"
    colerror,              \* the exception raised, "" when none
    colargs,               \* columns_to_keep, columns_to_keep_extra and
                           \* filter_columns as passed
    self_columns_to_keep,  \* the field self._columns_to_keep
    table_columns,         \* the columns of results_raw at line 267
    returned_columns       \* the columns of the table returned, None before

colvars == <<colpc, colerror, colargs, self_columns_to_keep, table_columns,
             returned_columns>>

\* The inference times of load_data with infer_batch_size, on result files
\* that carry batch-size infer-time columns.
VARIABLES
    bpc,         \* "call", "loaded", "returned", "raised"
    berror,      \* the exception raised, "" when none
    batch_size,  \* the argument infer_batch_size
    bfile,       \* the table the result files hold
    bresults     \* the local results_raw

infervars == <<bpc, berror, batch_size, bfile, bresults>>

\* The CDK app of tests/unittests/cloud/aws/test_stack.py and the static
\* resource stack built in it.
VARIABLES
    spc,             \* "app", "context", "construct", "s3", "constructed",
                     \* "batch"
    context_values,  \* the context values of the test configuration
    app_context,     \* the context of the app node: key -> value, None if unset
    si,              \* the number of context values set so far
    vpc_name,        \* the VPC_NAME the caller provides, None when it does not
    s3_calls,        \* the number of calls of create_s3_resources
    vpc,             \* stack.vpc of the static resource stack
    batch_vpc        \* whether the batch job stack has a Vpc child

stackvars == <<spc, context_values, app_context, si, vpc_name, s3_calls, vpc,
               batch_vpc>>

\* run of runbenchmarks.py, the command that starts a benchmark, and the
\* infrastructure stack of the aws mode.
VARIABLES
    mpc,               \* "call", "loaded", "deployed", "returned", "raised"
    merror,            \* the exception raised, "" when none
    config_file,       \* the argument config_file
    remove_resources,  \* the argument remove_resources
    yaml_configs,      \* what the config file holds
    infra_stack,       \* "absent", "deployed", "destroyed"
    local_split_id     \* the local split_id of the local mode

mainvars == <<mpc, merror, config_file, remove_resources, yaml_configs,
              infra_stack, local_split_id>>

\* The variables of the other components, for each component.
firstvars == <<evalvars, cleanvars, dlvars, jobvars, runvars>>

latervars ==
    <<filtervars, execvars, colvars, infervars, stackvars, mainvars>>

other == <<cleanvars, dlvars, jobvars, runvars, latervars>>

besides_filter ==
    <<firstvars, execvars, colvars, infervars, stackvars,
      mainvars>>

besides_exec ==
    <<firstvars, filtervars, colvars, infervars, stackvars,
      mainvars>>

besides_columns ==
    <<firstvars, filtervars, execvars, infervars, stackvars,
      mainvars>>

besides_infer ==
    <<firstvars, filtervars, execvars, colvars, stackvars,
      mainvars>>

besides_stack ==
    <<firstvars, filtervars, execvars, colvars, infervars,
      mainvars>>

besides_main ==
    <<firstvars, filtervars, execvars, colvars, infervars, stackvars>>

besides_clean ==
    <<evalvars, dlvars, jobvars, runvars, latervars>>

besides_download ==
    <<evalvars, cleanvars, jobvars, runvars, latervars>>

besides_jobs ==
    <<evalvars, cleanvars, dlvars, runvars, latervars>>

besides_run ==
    <<evalvars, cleanvars, dlvars, jobvars, latervars>>

vars == <<evalvars, other>>

NoArgs == [filter_errors |-> FALSE, framework_nan_fill |-> "None",
           worst_nan_fill |-> FALSE]

\* A DataFrame whose columns matter: its column names and its rows, each row
\* a function on the column names.
DataFrame(columns, rows) == [columns |-> columns, rows |-> rows]

NoFrame == DataFrame({}, <<>>)

\* No evaluator with task metadata is in use.
CleanIdle ==
    /\ cpc = "ready"
    /\ cerror = ""
    /\ task_metadata = NoFrame
    /\ task_metadata_given = NoFrame
    /\ convert_infer_time_to_per_row = TRUE
    /\ clean_data = FALSE
    /\ file_results = NoFrame
    /\ cresults = NoFrame
    /\ cret = None

\* No evaluator of result files is in use.
EvalIdle ==
    /\ pc = "new"
    /\ error = ""
    /\ args = NoArgs
    /\ self = NoArgs
    /\ raw = <<>>
    /\ banned_datasets = None
    /\ folds = None
    /\ frameworks = None
    /\ treat_folds_as_datasets = FALSE
    /\ results_raw = <<>>
    /\ ip = 0
    /\ stage = ""
    /\ fill_applied = "none"
    /\ prefill = <<>>
    /\ round_error_decimals = Some(5)

NoDownloadArgs == [overwrite |-> FALSE, sha1_hash |-> None, retries |-> 5]

\* No download is in use.
DownloadIdle ==
    /\ dpc = "call"
    /\ derror = ""
    /\ dargs = NoDownloadArgs
    /\ dest_file = None
    /\ dest_at_call = None
    /\ dirname_exists = FALSE
    /\ retries = 5
    /\ attempts = 0
    /\ fetched = None

Jobs == {"j1", "j2"}

\* No get_job_status is in use.
JobsIdle ==
    /\ jpc = "call"
    /\ jerror = ""
    /\ job_ids = None
    /\ job_status = [j \in Jobs |-> "SUBMITTED"]
    /\ status_dict = [j \in Jobs |-> "absent"]
    /\ ji = 0

NoConfigs ==
    [module |-> "tabular", metrics_bucket |-> None, benchmark_name |-> None,
     kwargs_keys |-> TRUE]

\* No run_benchmark is in use.
RunIdle ==
    /\ rpc = "call"
    /\ rerror = ""
    /\ configs = NoConfigs
    /\ benchmark = None
    /\ benchmark_name = ""
    /\ calls = <<>>

FilterIdle ==
    /\ fe_pc = "call"
    /\ fe_results_raw = <<>>
    /\ fe_folds = <<>>
    /\ fe_frameworks = None
    /\ fe_ret = None
    /\ fe_permuted = None
    /\ fe_permuted_ret = None

ExecIdle ==
    /\ xpc = "call"
    /\ xerror = ""
    /\ framework_arg = <<>>
    /\ framework = <<>>
    /\ version = None
    /\ constraint = None
    /\ test_data_dict = <<>>
    /\ test_names = <<>>
    /\ written = <<>>

NoColumnArgs ==
    [columns_to_keep |-> None, columns_to_keep_extra |-> None,
     filter_columns |-> FALSE]

ColumnsIdle ==
    /\ colpc = "new"
    /\ colerror = ""
    /\ colargs = NoColumnArgs
    /\ self_columns_to_keep = None
    /\ table_columns = <<>>
    /\ returned_columns = None

InferIdle ==
    /\ bpc = "call"
    /\ berror = ""
    /\ batch_size = None
    /\ bfile = NoFrame
    /\ bresults = NoFrame

ContextKeys ==
    <<"STACK_NAME_PREFIX", "LAMBDA_FUNCTION_NAME", "METRICS_BUCKET">>

NoContext == [k \in Range(ContextKeys) \cup {"VPC_NAME"} |-> None]

StackIdle ==
    /\ spc = "app"
    /\ context_values = NoContext
    /\ app_context = NoContext
    /\ si = 0
    /\ vpc_name = None
    /\ s3_calls = 0
    /\ vpc = None
    /\ batch_vpc = FALSE

NoConfigFile == [s3 |-> FALSE, split |-> FALSE, hex |-> None]

NoYaml == [mode |-> "local", metrics_bucket |-> None]

MainIdle ==
    /\ mpc = "call"
    /\ merror = ""
    /\ config_file = NoConfigFile
    /\ remove_resources = FALSE
    /\ yaml_configs = NoYaml
    /\ infra_stack = "absent"
    /\ local_split_id = None

FirstIdle == EvalIdle /\ CleanIdle /\ DownloadIdle /\ JobsIdle /\ RunIdle

LaterIdle ==
    /\ FilterIdle /\ ExecIdle /\ ColumnsIdle /\ InferIdle /\ StackIdle
    /\ MainIdle

Init ==
    /\ LaterIdle
    /\ pc = "new"
    /\ error = ""
    /\ args = NoArgs
    /\ self = NoArgs
    /\ raw \in InputTables
    /\ banned_datasets = None
    /\ folds = None
    /\ frameworks = None
    /\ treat_folds_as_datasets = FALSE
    /\ results_raw = <<>>
    /\ ip = 0
    /\ stage = ""
    /\ fill_applied = "none"
    /\ prefill = <<>>
    /\ round_error_decimals = Some(5)
    /\ CleanIdle
    /\ DownloadIdle
    /\ JobsIdle
    /\ RunIdle

\* ------------------------------------------------------------ construction

\* __init__, lines 140-150: filter_errors discards framework_nan_fill, and
\* what is left of the two fill options must not both be set.
InitFields(a) ==
    [filter_errors |-> a.filter_errors,
     framework_nan_fill |->
         IF a.filter_errors THEN "None" ELSE a.framework_nan_fill,
     worst_nan_fill |-> a.worst_nan_fill]

\* __init__ without lines 146-150.
InitRaises_never(a) == FALSE

InitRaises(a) ==
    InitFields(a).worst_nan_fill /\ InitFields(a).framework_nan_fill # "None"

CtorArgs ==
    [filter_errors : BOOLEAN, framework_nan_fill : {"None", "baseline"},
     worst_nan_fill : BOOLEAN]

Construct ==
    /\ pc = "new"
    /\ \E a \in CtorArgs :
        /\ args' = a
        /\ IF InitRaises(a)
           THEN pc' = "raised" /\ error' = "AssertionError: fill options"
                /\ self' = self
           ELSE pc' = "ready" /\ error' = "" /\ self' = InitFields(a)
    /\ UNCHANGED <<raw, banned_datasets, folds, frameworks,
                   treat_folds_as_datasets, results_raw, ip, stage,
                   fill_applied, prefill>>
    /\ UNCHANGED round_error_decimals
    /\ UNCHANGED other

\* --------------------------------------------------------------- load_data

\* load_data with lines 250-251 moved above line 241: the framework filter
\* before the fill.
StageOrder_filter_first ==
    << "fold_filter", "problem_type_filter", "banned_filter", "valid_filter",
       "infer_batch_size", "filter_frameworks", "fill", "convert_folds",
       "filter_errors", "assert_frameworks", "round_error", "filter_columns" >>

\* The stages of load_data's body, in the order of its lines 227-268.
StageOrder ==
    << "fold_filter", "problem_type_filter", "banned_filter", "valid_filter",
       "infer_batch_size", "fill", "filter_frameworks", "convert_folds",
       "filter_errors", "assert_frameworks", "round_error", "filter_columns" >>

\* The values the arguments of a call are drawn from.
FoldsArgs == {None, Some(<<0, 1>>), Some(<<0>>)}

FrameworksArgs == {None, Some(<<"X", "baseline">>), Some(<<"X">>)}

BannedArgs == {None, Some(<<"d2">>)}

ProblemTypeArgs ==
    {None, Some([list |-> FALSE, value |-> "binary"]),
     Some([list |-> TRUE, value |-> <<"binary", "regression">>])}

ValidArgs == {None, Some(<<"d1">>)}

InferBatchSizeArgs == {None, Some(1)}

\* Line 226: the call reads the files, and _load_results validates them.
LoadData ==
    /\ pc = "ready"
    /\ \E fo \in FoldsArgs, fw \in FrameworksArgs, banned \in BannedArgs :
        LET loaded == load_results(raw, banned)
        IN  /\ banned_datasets' = banned
            /\ IF loaded.error # ""
               THEN /\ pc' = "raised"
                    /\ error' = loaded.error
                    /\ UNCHANGED <<folds, frameworks, results_raw, ip>>
               ELSE /\ pc' = "load_data"
                    /\ error' = ""
                    /\ folds' = fo
                    /\ frameworks' = fw
                    /\ results_raw' = loaded.table
                    /\ ip' = 1
    /\ UNCHANGED <<args, self, raw, treat_folds_as_datasets, stage,
                   fill_applied, prefill>>
    /\ UNCHANGED round_error_decimals
    /\ UNCHANGED other

At(name) == pc = "load_data" /\ StageOrder[ip] = name

\* The step to the next stage, or the return after the last one.
Advance ==
    /\ ip' = ip + 1
    /\ pc' = IF ip = Len(StageOrder) THEN "returned" ELSE "load_data"
    /\ error' = ""

\* Lines 227-228.
FoldFilter ==
    /\ At("fold_filter")
    /\ IF folds # None
       THEN /\ results_raw' =
                   SelectSeq(results_raw, LAMBDA r : r.fold \in Range(folds[1]))
            /\ stage' = "fold_filter"
       ELSE UNCHANGED <<results_raw, stage>>
    /\ Advance
    /\ UNCHANGED <<args, self, raw, banned_datasets, folds, frameworks,
                   treat_folds_as_datasets, fill_applied, prefill>>
    /\ UNCHANGED round_error_decimals
    /\ UNCHANGED other

\* Lines 229-234.
ProblemTypeFilter ==
    /\ At("problem_type_filter")
    /\ \E problem_type \in ProblemTypeArgs :
        IF problem_type # None
        THEN /\ results_raw' =
                    IF problem_type[1].list
                    THEN SelectSeq(results_raw,
                             LAMBDA r : r.problem_type
                                            \in Range(problem_type[1].value))
                    ELSE SelectSeq(results_raw,
                             LAMBDA r : r.problem_type = problem_type[1].value)
             /\ stage' = "problem_type_filter"
        ELSE UNCHANGED <<results_raw, stage>>
    /\ Advance
    /\ UNCHANGED <<args, self, raw, banned_datasets, folds, frameworks,
                   treat_folds_as_datasets, fill_applied, prefill>>
    /\ UNCHANGED round_error_decimals
    /\ UNCHANGED other

\* Lines 235-236: the last read of banned_datasets.
BannedFilter ==
    /\ At("banned_filter")
    /\ IF banned_datasets # None
       THEN /\ results_raw' = drop_banned(results_raw, banned_datasets)
            /\ stage' = "banned_filter"
       ELSE UNCHANGED <<results_raw, stage>>
    /\ banned_datasets' = None
    /\ Advance
    /\ UNCHANGED <<args, self, raw, folds, frameworks,
                   treat_folds_as_datasets, fill_applied, prefill>>
    /\ UNCHANGED round_error_decimals
    /\ UNCHANGED other

\* Lines 237-238.
ValidFilter ==
    /\ At("valid_filter")
    /\ \E valid_datasets \in ValidArgs :
        IF valid_datasets # None
        THEN /\ results_raw' =
                    SelectSeq(results_raw,
                        LAMBDA r : r.dataset \in Range(valid_datasets[1]))
             /\ stage' = "valid_filter"
        ELSE UNCHANGED <<results_raw, stage>>
    /\ Advance
    /\ UNCHANGED <<args, self, raw, banned_datasets, folds, frameworks,
                   treat_folds_as_datasets, fill_applied, prefill>>
    /\ UNCHANGED round_error_decimals
    /\ UNCHANGED other

\* Lines 239-240 and _update_infer_batch_size: the tables here carry none of
\* the batch-size columns it looks for, so it returns the table as it is.
InferBatchSize ==
    /\ At("infer_batch_size")
    /\ \E infer_batch_size \in InferBatchSizeArgs :
        IF infer_batch_size # None
        THEN stage' = "infer_batch_size"
        ELSE UNCHANGED stage
    /\ Advance
    /\ UNCHANGED <<args, self, raw, banned_datasets, folds, frameworks,
                   treat_folds_as_datasets, results_raw, fill_applied,
                   prefill>>
    /\ UNCHANGED round_error_decimals
    /\ UNCHANGED other

\* Lines 241-248.
Fill ==
    /\ At("fill")
    /\ prefill' = results_raw
    /\ IF self.framework_nan_fill # "None"
       THEN /\ results_raw' = fill_missing_results_with_default(
                                  self.framework_nan_fill, frameworks,
                                  results_raw)
            /\ fill_applied' = "default"
            /\ stage' = "fill"
       ELSE IF self.worst_nan_fill
            THEN /\ results_raw' = fill_missing_results_with_worst(
                                       frameworks, results_raw)
                 /\ fill_applied' = "worst"
                 /\ stage' = "fill"
            ELSE UNCHANGED <<results_raw, fill_applied, stage>>
    /\ Advance
    /\ UNCHANGED <<args, self, raw, banned_datasets, folds, frameworks,
                   treat_folds_as_datasets>>
    /\ UNCHANGED round_error_decimals
    /\ UNCHANGED other

\* Lines 250-251.
FilterFrameworks ==
    /\ At("filter_frameworks")
    /\ IF frameworks # None
       THEN /\ results_raw' = filter_frameworks(results_raw, frameworks[1])
            /\ stage' = "filter_frameworks"
       ELSE UNCHANGED <<results_raw, stage>>
    /\ Advance
    /\ UNCHANGED <<args, self, raw, banned_datasets, folds, frameworks,
                   treat_folds_as_datasets, fill_applied, prefill>>
    /\ UNCHANGED round_error_decimals
    /\ UNCHANGED other

\* Lines 252-254.
ConvertFolds ==
    /\ At("convert_folds")
    /\ \E treat \in BOOLEAN :
        /\ treat_folds_as_datasets' = treat
        /\ IF treat
           THEN /\ results_raw' =
                       convert_folds_into_separate_datasets(results_raw)
                /\ folds' = Some(<<0>>)
                /\ stage' = "convert_folds"
           ELSE UNCHANGED <<results_raw, folds, stage>>
    /\ Advance
    /\ UNCHANGED <<args, self, raw, banned_datasets, frameworks,
                   fill_applied, prefill>>
    /\ UNCHANGED round_error_decimals
    /\ UNCHANGED other

\* Lines 255-256.
FilterErrors ==
    /\ At("filter_errors")
    /\ IF self.filter_errors
       THEN IF filter_errors_raises(results_raw, folds)
            THEN /\ pc' = "raised"
                 /\ error' = "TypeError: len(folds)"
                 /\ stage' = "filter_errors"
                 /\ UNCHANGED <<results_raw, ip>>
            ELSE /\ results_raw' = filter_errors(results_raw, folds)
                 /\ stage' = "filter_errors"
                 /\ Advance
       ELSE UNCHANGED <<results_raw, stage>> /\ Advance
    /\ UNCHANGED <<args, self, raw, banned_datasets, folds, frameworks,
                   treat_folds_as_datasets, fill_applied, prefill>>
    /\ UNCHANGED round_error_decimals
    /\ UNCHANGED other

\* The check of line 259 as "no framework beyond those asked for".
frameworks_differ_subset(t, fw) == ~(FrameworksOf(t) \subseteq Range(fw))

\* Lines 257-262.
frameworks_differ(t, fw) == Range(fw) # FrameworksOf(t)

AssertFrameworks ==
    /\ At("assert_frameworks")
    /\ IF frameworks # None
       THEN IF frameworks_differ(results_raw, frameworks[1])
            THEN /\ pc' = "raised"
                 /\ error' = "AssertionError: frameworks present"
                 /\ stage' = "assert_frameworks"
                 /\ UNCHANGED ip
            ELSE stage' = "assert_frameworks" /\ Advance
       ELSE UNCHANGED stage /\ Advance
    /\ UNCHANGED <<args, self, raw, banned_datasets, folds, frameworks,
                   treat_folds_as_datasets, results_raw, fill_applied,
                   prefill>>
    /\ UNCHANGED round_error_decimals
    /\ UNCHANGED other

\* The values of the constructor's round_error_decimals: None, or the default.
RoundErrorDecimalsArgs == {None, Some(5)}

\* Lines 263-265.  self.round_error_decimals is read here for the first time,
\* so the value the constructor was given is drawn here.
RoundError ==
    /\ At("round_error")
    /\ \E d \in RoundErrorDecimalsArgs :
        /\ round_error_decimals' = d
        /\ results_raw' = IF d = None THEN results_raw
                          ELSE round_table(results_raw)
    /\ stage' = "round_error"
    /\ Advance
    /\ UNCHANGED <<args, self, raw, banned_datasets, folds, frameworks,
                   treat_folds_as_datasets, fill_applied, prefill>>
    /\ UNCHANGED other

\* Lines 267-268, with filter_columns at its default: the rows keep the
\* default columns, which are all the columns a row has here.
FilterColumns ==
    /\ At("filter_columns")
    /\ stage' = "filter_columns"
    /\ Advance
    /\ UNCHANGED <<args, self, raw, banned_datasets, folds, frameworks,
                   treat_folds_as_datasets, results_raw, fill_applied,
                   prefill>>
    /\ UNCHANGED round_error_decimals
    /\ UNCHANGED other

Next ==
    \/ Construct
    \/ LoadData
    \/ FoldFilter
    \/ ProblemTypeFilter
    \/ BannedFilter
    \/ ValidFilter
    \/ InferBatchSize
    \/ Fill
    \/ FilterFrameworks
    \/ ConvertFolds
    \/ FilterErrors
    \/ AssertFrameworks
    \/ RoundError
    \/ FilterColumns

Spec == Init /\ [][Next]_vars

\* ----------------------------------------- task metadata and infer time
\* An evaluator built with a task-metadata DataFrame: task_metadata(),
\* filter_datasets() and the first lines of _load_results, which set the
\* inference times and, with clean_data=True, join the results with the task
\* metadata.  A time is a fraction of a second, num / den.

Seconds(n, d) == [num |-> n, den |-> d]

\* Line 169: 0.001.
TimeInferFloor == Seconds(1, 1000)

Task(name, tid, n, missing, symbolic) ==
    [name |-> name, tid |-> tid, NumberOfInstances |-> n,
     NumberOfInstancesWithMissingValues |-> missing,
     NumberOfSymbolicFeatures |-> symbolic]

TaskColumns ==
    {"name", "tid", "NumberOfInstances", "NumberOfInstancesWithMissingValues",
     "NumberOfSymbolicFeatures"}

Tasks == {Task("d1", 1, 100, 0, 0), Task("d2", 2, 1000, 10, 3)}

\* The task-metadata tables a caller gives: each task at most once.
TaskMetadataTables ==
    {DataFrame(TaskColumns, rows) :
        rows \in {t \in UNION {[1..n -> Tasks] : n \in 0..Cardinality(Tasks)} :
                     \A i \in 1..Len(t), j \in 1..Len(t) :
                         i # j => t[i] # t[j]}}

\* The task ids of the result files; no task metadata has task 3.
Tids == {1, 2, 3}

FileDatasetOf(tid) == IF tid = 1 THEN "d1" ELSE IF tid = 2 THEN "d2" ELSE "d3"

\* The inference times a result file holds: 0 and 0.25 seconds.
InferTimes == {Seconds(0, 1), Seconds(1, 4)}

TimedRows ==
    {[dataset |-> FileDatasetOf(tid), tid |-> tid, time_infer_s |-> t] :
        tid \in Tids, t \in InferTimes}

UntimedRows == {[dataset |-> FileDatasetOf(tid), tid |-> tid] : tid \in Tids}

\* The result files hold at most MaxLoaded rows in all.
MaxLoaded == 2

\* What load_results_raw gives: tables with and without a time_infer_s column.
LoadedTables ==
    {DataFrame({"dataset", "tid", "time_infer_s"}, rows) :
        rows \in UNION {[1..n -> TimedRows] : n \in 0..MaxLoaded}}
    \cup {DataFrame({"dataset", "tid"}, rows) :
        rows \in UNION {[1..n -> UntimedRows] : n \in 0..MaxLoaded}}

\* Lines 166-169 left out.
zero_infer_time_kept(df) == df

\* Lines 166-169: results_raw.loc[results_raw[TIME_INFER_S] == 0,
\* TIME_INFER_S] = 0.001, when the table has the column.
zero_infer_time(df) ==
    IF "time_infer_s" \in df.columns
    THEN DataFrame(df.columns,
             [i \in 1..Len(df.rows) |->
                 IF df.rows[i].time_infer_s.num = 0
                 THEN [df.rows[i] EXCEPT !.time_infer_s = TimeInferFloor]
                 ELSE df.rows[i]])
    ELSE df

\* Line 285: task_metadata[DATASET] = task_metadata["name"], on the DataFrame
\* itself.
set_dataset_to_name(md) ==
    DataFrame(md.columns \cup {"dataset"},
        [i \in 1..Len(md.rows) |->
            [c \in md.columns \cup {"dataset"} |->
                IF c = "dataset" THEN md.rows[i].name ELSE md.rows[i][c]]])

\* Row l of the results joined with row r of the task metadata.
Joined(l, r) ==
    [c \in DOMAIN l \cup {"NumberOfInstances", "dataset"} |->
        IF c \in {"NumberOfInstances", "dataset"} THEN r[c] ELSE l[c]]

\* Lines 287-291: the inner join on tid, in the order of the results.
RECURSIVE merge_on_tid(_, _)
merge_on_tid(left, right) ==
    IF left = <<>> THEN <<>>
    ELSE LET l == Head(left)
             hits == SelectSeq(right, LAMBDA r : r.tid = l.tid)
         IN  [j \in 1..Len(hits) |-> Joined(l, hits[j])]
                 \o merge_on_tid(Tail(left), right)

\* Line 299: time_infer_s / NumberOfInstances * 10.
per_row(r) ==
    [r EXCEPT !.time_infer_s =
        Seconds(r.time_infer_s.num * 10,
                r.time_infer_s.den * r.NumberOfInstances)]

\* Line 299 raises when the results have no time_infer_s column.
clean_data_raises(df, convert) == convert /\ "time_infer_s" \notin df.columns

\* _clean_data, lines 287-300, with md the task metadata after line 285.
clean_results(df, md, convert) ==
    LET merged == merge_on_tid(df.rows, md.rows)
    IN  DataFrame(df.columns \cup {"NumberOfInstances"},
            IF convert /\ "time_infer_s" \in df.columns
            THEN [i \in 1..Len(merged) |-> per_row(merged[i])]
            ELSE merged)

FilterArgs ==
    [max_rows : {None, Some(500)}, min_rows : {None, Some(500)},
     max_rows_missing_val : {None, Some(0)},
     max_features_categorical : {None, Some(0)}]

\* filter_datasets, lines 354-365: the names of the tasks within the limits.
filter_datasets(md, a) ==
    LET kept == SelectSeq(md.rows, LAMBDA r :
                    /\ a.max_rows # None =>
                           r.NumberOfInstances <= a.max_rows[1]
                    /\ a.min_rows # None =>
                           r.NumberOfInstances >= a.min_rows[1]
                    /\ a.max_rows_missing_val # None =>
                           r.NumberOfInstancesWithMissingValues
                               <= a.max_rows_missing_val[1]
                    /\ a.max_features_categorical # None =>
                           r.NumberOfSymbolicFeatures
                               <= a.max_features_categorical[1])
    IN  [i \in 1..Len(kept) |-> kept[i].name]

\* BenchmarkEvaluator(task_metadata=<DataFrame>, ...) has been called.
InitClean ==
    /\ LaterIdle
    /\ EvalIdle
    /\ DownloadIdle
    /\ JobsIdle
    /\ RunIdle
    /\ cpc = "ready"
    /\ cerror = ""
    /\ task_metadata \in TaskMetadataTables
    /\ task_metadata_given = task_metadata
    /\ convert_infer_time_to_per_row \in BOOLEAN
    /\ clean_data = FALSE
    /\ file_results = NoFrame
    /\ cresults = NoFrame
    /\ cret = None

\* task_metadata(), lines 272-273: the DataFrame itself is returned.
TaskMetadataCall ==
    /\ cpc = "ready"
    /\ cret' = [call |-> "task_metadata", value |-> task_metadata]
    /\ UNCHANGED <<cpc, cerror, task_metadata, task_metadata_given,
                   convert_infer_time_to_per_row, clean_data, file_results,
                   cresults>>
    /\ UNCHANGED besides_clean

FilterDatasetsCall ==
    /\ cpc = "ready"
    /\ \E a \in FilterArgs :
        cret' = [call |-> "filter_datasets",
                 value |-> filter_datasets(task_metadata, a)]
    /\ UNCHANGED <<cpc, cerror, task_metadata, task_metadata_given,
                   convert_infer_time_to_per_row, clean_data, file_results,
                   cresults>>
    /\ UNCHANGED besides_clean

\* load_data, line 226, and _load_results, lines 161-165: the files are read.
LoadResults ==
    /\ cpc = "ready"
    /\ \E t \in LoadedTables, c \in BOOLEAN :
        /\ file_results' = t
        /\ cresults' = t
        /\ clean_data' = c
    /\ cpc' = "line166"
    /\ cerror' = ""
    /\ UNCHANGED <<task_metadata, task_metadata_given,
                   convert_infer_time_to_per_row, cret>>
    /\ UNCHANGED besides_clean

\* Lines 166-169.
ZeroInferTime ==
    /\ cpc = "line166"
    /\ cresults' = zero_infer_time(cresults)
    /\ cpc' = "line170"
    /\ UNCHANGED <<cerror, task_metadata, task_metadata_given,
                   convert_infer_time_to_per_row, clean_data, file_results,
                   cret>>
    /\ UNCHANGED besides_clean

\* Lines 170-172: with clean_data=True, _clean_data writes the dataset column
\* into the task metadata and joins the results with it.
CleanData ==
    /\ cpc = "line170"
    /\ IF clean_data
       THEN /\ task_metadata' = set_dataset_to_name(task_metadata)
            /\ IF clean_data_raises(cresults, convert_infer_time_to_per_row)
               THEN /\ cpc' = "raised"
                    /\ cerror' = "KeyError: time_infer_s"
                    /\ UNCHANGED cresults
               ELSE /\ cpc' = "line173"
                    /\ cresults' = clean_results(cresults, task_metadata',
                                        convert_infer_time_to_per_row)
                    /\ UNCHANGED cerror
       ELSE /\ cpc' = "line173"
            /\ UNCHANGED <<cerror, task_metadata, cresults>>
    /\ UNCHANGED <<task_metadata_given, convert_infer_time_to_per_row,
                   clean_data, file_results, cret>>
    /\ UNCHANGED besides_clean

\* Lines 173-269: the rest of the load, the stages of Spec.  They read no task
\* metadata, and on tables without batch-size columns they write no
\* time_infer_s; the call is over after them, and its locals are gone.
LoadDataRest ==
    /\ cpc = "line173"
    /\ cpc' = "ready"
    /\ cret' = [call |-> "load_data", value |-> None]
    /\ file_results' = NoFrame
    /\ cresults' = NoFrame
    /\ clean_data' = FALSE
    /\ UNCHANGED <<cerror, task_metadata, task_metadata_given,
                   convert_infer_time_to_per_row>>
    /\ UNCHANGED besides_clean

NextClean ==
    \/ TaskMetadataCall
    \/ FilterDatasetsCall
    \/ LoadResults
    \/ ZeroInferTime
    \/ CleanData
    \/ LoadDataRest

SpecClean == InitClean /\ [][NextClean]_vars

\* ---------------------------------------------------------------- download
\* download of datasets/utils.py with a valid url and a path that names a
\* file.  A file is its content; no other process touches the destination.

\* What the destination may hold and what the server may send: the current
\* content of the url, an older one, and a truncated transfer.
Contents == {"new", "old", "partial"}

\* sha1sum, lines 101-105: the digest of the content of the file.
sha1sum(content) == "sha1:" \o content

\* retries is at most MaxRetries.
MaxRetries == 2

DownloadArgs ==
    [overwrite : BOOLEAN,
     sha1_hash : {None, Some(sha1sum("new")), Some(sha1sum("old"))},
     retries : -1..MaxRetries]

\* The hash comparison without effect.
hash_mismatch_never(file, sha1_hash) == FALSE

\* sha1_hash and not sha1sum(fname) == sha1_hash, lines 170, 217 and 227.
hash_mismatch(file, sha1_hash) ==
    sha1_hash # None /\ sha1sum(file[1]) # sha1_hash[1]

\* The condition of line 170.
needs_download(overwrite, file, sha1_hash) ==
    overwrite \/ file = None \/ hash_mismatch(file, sha1_hash)

\* The file at fname after lines 217-226: the temporary file replaces it when
\* there is none or its hash is not the one asked for; otherwise the
\* temporary file is removed.
after_replace(file, content, sha1_hash) ==
    IF file = None \/ hash_mismatch(file, sha1_hash) THEN Some(content)
    ELSE file

\* What one request may end with: an exception of the transport, a status
\* other than 200, or a body.
Failures == {"ConnectionError", "RuntimeError: Failed downloading url"}

\* Before the call: the destination, with or without a file and a directory.
InitDownload ==
    /\ LaterIdle
    /\ EvalIdle
    /\ CleanIdle
    /\ JobsIdle
    /\ RunIdle
    /\ dpc = "call"
    /\ derror = ""
    /\ dargs = NoDownloadArgs
    /\ dest_file \in {None} \cup {Some(c) : c \in Contents}
    /\ dest_at_call = dest_file
    /\ dirname_exists \in IF dest_file = None THEN BOOLEAN ELSE {TRUE}
    /\ retries = 5
    /\ attempts = 0
    /\ fetched = None

\* Lines 139-173: the checks before the loop.  Line 169 opens the file at
\* fname to print its sha1sum, which raises when there is no file.
Download ==
    /\ dpc = "call"
    /\ \E a \in DownloadArgs :
        /\ dargs' = a
        /\ retries' = a.retries
        /\ IF a.retries < 0
           THEN /\ dpc' = "raised"
                /\ derror' = "AssertionError: retries"
                /\ UNCHANGED dirname_exists
           ELSE IF dest_file = None
           THEN /\ dpc' = "raised"
                /\ derror' = "FileNotFoundError"
                /\ UNCHANGED dirname_exists
           ELSE IF needs_download(a.overwrite, dest_file, a.sha1_hash)
           THEN /\ dpc' = "loop"
                /\ derror' = ""
                /\ dirname_exists' = TRUE
           ELSE /\ dpc' = "returned"
                /\ derror' = ""
                /\ UNCHANGED dirname_exists
    /\ UNCHANGED <<dest_file, dest_at_call, attempts, fetched>>
    /\ UNCHANGED besides_download

\* Line 237 with < in the place of <=.
out_of_retries_below(left) == left < 0

\* Line 237: if retries <= 0, after line 236 took one off.
out_of_retries(left) == left <= 0

\* Lines 235-244: an exception in the loop body.
Failed(e) ==
    /\ retries' = retries - 1
    /\ IF out_of_retries(retries - 1)
       THEN dpc' = "raised" /\ derror' = e
       ELSE dpc' = "loop" /\ derror' = ""

\* Lines 174-213 and 235-244: a pass through the loop body in which the
\* request fails.
AttemptFails ==
    /\ dpc = "loop"
    /\ retries + 1 > 0
    /\ attempts' = attempts + 1
    /\ \E e \in Failures : Failed(e)
    /\ UNCHANGED <<dargs, dest_file, dest_at_call, dirname_exists, fetched>>
    /\ UNCHANGED besides_download

\* Lines 174-244: a pass through the loop body in which the request gives a
\* body, which is written to a temporary file.
AttemptFetches ==
    /\ dpc = "loop"
    /\ retries + 1 > 0
    /\ attempts' = attempts + 1
    /\ \E content \in {"new", "partial"} :
        /\ fetched' = Some(content)
        /\ dest_file' = after_replace(dest_file, content, dargs.sha1_hash)
        /\ IF hash_mismatch(dest_file', dargs.sha1_hash)
           THEN Failed("UserWarning: content hash does not match")
           ELSE dpc' = "returned" /\ derror' = "" /\ UNCHANGED retries
    /\ UNCHANGED <<dargs, dest_at_call, dirname_exists>>
    /\ UNCHANGED besides_download

NextDownload ==
    \/ Download
    \/ AttemptFails
    \/ AttemptFetches

SpecDownload == InitDownload /\ [][NextDownload]_vars

\* ---------------------------------------------------------- get_job_status
\* get_job_status of runbenchmarks.py, called with job ids and no config
\* file.  The function returns at line 195; the polling loop of lines 197-216
\* comes after that return and is never run.

\* The statuses of an AWS Batch job, from submission to its end.
JobStatuses == {"SUBMITTED", "RUNNING", "SUCCEEDED", "FAILED"}

JobIdsArgs == {None, Some(<<>>), Some(<<"j1">>), Some(<<"j1", "j2">>)}

RegionArgs == {None, Some("us-east-1")}

\* Before the call: each job is in some status.
InitJobs ==
    /\ LaterIdle
    /\ EvalIdle
    /\ CleanIdle
    /\ DownloadIdle
    /\ RunIdle
    /\ jpc = "call"
    /\ jerror = ""
    /\ job_ids = None
    /\ job_status \in [Jobs -> JobStatuses]
    /\ status_dict = [j \in Jobs |-> "absent"]
    /\ ji = 0

\* AWS Batch moves a job on: a submitted job starts, a running job ends.
BatchStep ==
    /\ \E j \in Jobs :
        \/ /\ job_status[j] = "SUBMITTED"
           /\ job_status' = [job_status EXCEPT ![j] = "RUNNING"]
        \/ /\ job_status[j] = "RUNNING"
           /\ \E s \in {"SUCCEEDED", "FAILED"} :
               job_status' = [job_status EXCEPT ![j] = s]
    /\ UNCHANGED <<jpc, jerror, job_ids, status_dict, ji>>
    /\ UNCHANGED besides_jobs

\* Lines 176-187, with config_file=None.
GetJobStatus ==
    /\ jpc = "call"
    /\ \E ids \in JobIdsArgs, cdk_deploy_region \in RegionArgs :
        /\ job_ids' = ids
        /\ IF ids = None \/ cdk_deploy_region = None
           THEN jpc' = "raised" /\ jerror' = "ValueError"
           ELSE jpc' = "describe" /\ jerror' = ""
    /\ UNCHANGED <<job_status, status_dict, ji>>
    /\ UNCHANGED besides_jobs

\* Lines 189-192: one pass of the for loop.
DescribeJob ==
    /\ jpc = "describe"
    /\ ji < Len(job_ids[1])
    /\ status_dict' =
           [status_dict EXCEPT ![job_ids[1][ji + 1]] =
               job_status[job_ids[1][ji + 1]]]
    /\ ji' = ji + 1
    /\ UNCHANGED <<jpc, jerror, job_ids, job_status>>
    /\ UNCHANGED besides_jobs

\* Lines 194-195: return status_dict.
ReturnStatusDict ==
    /\ jpc = "describe"
    /\ ji = Len(job_ids[1])
    /\ jpc' = "returned"
    /\ UNCHANGED <<jerror, job_ids, job_status, status_dict, ji>>
    /\ UNCHANGED besides_jobs

NextJobs ==
    \/ BatchStep
    \/ GetJobStatus
    \/ DescribeJob
    \/ ReturnStatusDict

SpecJobs == InitJobs /\ [][NextJobs]_vars

\* ----------------------------------------------------------- run_benchmark
\* run_benchmark of runbenchmarks.py.  The adapters are not modelled: a call
\* of one of their methods returns or raises.

Modules == {"multimodal", "tabular", "timeseries"}

\* The configurations: the module, metrics_bucket (None when the key is
\* missing or None), benchmark_name, and whether the keys get_kwargs indexes
\* are there in the form it takes them.
ConfigsArgs ==
    [module : Modules, metrics_bucket : {None, Some(""), Some("bucket")},
     benchmark_name : {None, Some("bench")}, kwargs_keys : BOOLEAN]

SplitIdArgs == {None, Some("0a1b")}

\* Any module gets the tabular adapter.
module_to_benchmark_any(module) == Some("TabularBenchmark")

\* Lines 64-67 and 76: module_to_benchmark.get(module_name, None).
module_to_benchmark(module) ==
    IF module = "multimodal" THEN Some("MultiModalBenchmark")
    ELSE IF module = "tabular" THEN Some("TabularBenchmark")
    ELSE None

\* Lines 69-74.
benchmark_name_of(c, split_id) ==
    LET given == IF c.benchmark_name = None THEN "ag_bench"
                 ELSE c.benchmark_name[1]
    IN  IF split_id = None THEN given ELSE given \o "_" \o split_id[1]

\* Line 85: configs.get("metrics_bucket", None) is true.
has_metrics_bucket(c) == c.metrics_bucket # None /\ c.metrics_bucket[1] # ""

InitRun ==
    /\ LaterIdle
    /\ EvalIdle
    /\ CleanIdle
    /\ DownloadIdle
    /\ JobsIdle
    /\ RunIdle

\* Lines 64-80: the adapter is chosen and created, get_kwargs reads the
\* configuration.
RunBenchmark ==
    /\ rpc = "call"
    /\ \E c \in ConfigsArgs, split_id \in SplitIdArgs :
        /\ configs' = c
        /\ benchmark_name' = benchmark_name_of(c, split_id)
        /\ IF module_to_benchmark(c.module) = None
           THEN /\ rpc' = "raised"
                /\ rerror' = "NotImplementedError"
                /\ UNCHANGED benchmark
           ELSE /\ benchmark' = module_to_benchmark(c.module)
                /\ IF c.kwargs_keys
                   THEN rpc' = "setup" /\ rerror' = ""
                   ELSE rpc' = "raised" /\ rerror' = "KeyError"
    /\ UNCHANGED calls
    /\ UNCHANGED besides_run

\* A call of the adapter's method `name`, which returns, so that
\* run_benchmark goes on to `next`, or raises.
AdapterCall(name, next) ==
    /\ calls' = Append(calls, name)
    /\ \/ rpc' = next /\ rerror' = ""
       \/ rpc' = "raised" /\ rerror' = "Exception in " \o name
    /\ UNCHANGED <<configs, benchmark, benchmark_name>>
    /\ UNCHANGED besides_run

\* Line 81.
Setup ==
    /\ rpc = "setup"
    /\ AdapterCall("setup", "run")

\* Line 82.
Run ==
    /\ rpc = "run"
    /\ AdapterCall("run", "save_configs")

\* Line 83.
SaveConfigs ==
    /\ rpc = "save_configs"
    /\ AdapterCall("save_configs", "upload")

\* Lines 85-86.
UploadMetrics ==
    /\ rpc = "upload"
    /\ has_metrics_bucket(configs)
    /\ AdapterCall("upload_metrics", "returned")

\* Line 85 with no metrics_bucket: run_benchmark returns.
NoUpload ==
    /\ rpc = "upload"
    /\ ~has_metrics_bucket(configs)
    /\ rpc' = "returned"
    /\ UNCHANGED <<rerror, configs, benchmark, benchmark_name, calls>>
    /\ UNCHANGED besides_run

NextRun ==
    \/ RunBenchmark
    \/ Setup
    \/ Run
    \/ SaveConfigs
    \/ UploadMetrics
    \/ NoUpload

SpecRun == InitRun /\ [][NextRun]_vars

\* ------------------------------------------------------------ filter_errors
\* filter_errors called directly with a table, a fold list and a framework
\* list, and called again on the same table with the framework list in another
\* order.

FoldLists == {<<>>, <<0>>, <<0, 1>>}

\* The frameworks a caller may list: those of the tables and one with no row.
ListedFrameworks == Frameworks \cup {"absent"}

FrameworkLists ==
    UNION { { l \in [1..n -> ListedFrameworks] :
                \A i \in 1..n, j \in 1..n : i # j => l[i] # l[j] } :
            n \in 0..Cardinality(ListedFrameworks) }

Reorderings(l) ==
    {q \in FrameworkLists : Len(q) = Len(l) /\ Range(q) = Range(l)}

\* filter_errors whose loop stops after the first framework.
filter_errors_first(t, fo, fw) ==
    LET fs == IF fw = None THEN Unique([i \in 1..Len(t) |-> t[i].framework])
              ELSE fw[1]
    IN  filter_errors_loop(t, IF fs = <<>> THEN fs ELSE <<Head(fs)>>, Len(fo))

\* filter_errors (lines 334-345) with a fold list: frameworks defaults to the
\* frameworks of the table, in order of first appearance.
filter_errors_listed(t, fo, fw) ==
    LET fs == IF fw = None THEN Unique([i \in 1..Len(t) |-> t[i].framework])
              ELSE fw[1]
    IN  filter_errors_loop(t, fs, Len(fo))

InitFilter ==
    /\ FirstIdle
    /\ MainIdle
    /\ StackIdle
    /\ InferIdle
    /\ ExecIdle
    /\ ColumnsIdle
    /\ fe_pc = "call"
    /\ fe_results_raw \in InputTables
    /\ fe_folds \in FoldLists
    /\ fe_frameworks \in {None} \cup {Some(l) : l \in FrameworkLists}
    /\ fe_ret = None
    /\ fe_permuted = None
    /\ fe_permuted_ret = None

FilterErrorsCall ==
    /\ fe_pc = "call"
    /\ fe_ret' = Some(filter_errors_listed(fe_results_raw, fe_folds,
                                           fe_frameworks))
    /\ fe_pc' = "returned"
    /\ UNCHANGED <<fe_results_raw, fe_folds, fe_frameworks, fe_permuted,
                   fe_permuted_ret>>
    /\ UNCHANGED besides_filter

\* A second call with the same table and folds and the listed frameworks in
\* any order.
FilterErrorsPermuted ==
    /\ fe_pc = "returned"
    /\ fe_frameworks # None
    /\ \E q \in Reorderings(fe_frameworks[1]) :
        /\ fe_permuted' = Some(q)
        /\ fe_permuted_ret' =
               Some(filter_errors_listed(fe_results_raw, fe_folds, Some(q)))
    /\ fe_pc' = "permuted"
    /\ UNCHANGED <<fe_results_raw, fe_folds, fe_frameworks, fe_ret>>
    /\ UNCHANGED besides_filter

NextFilter ==
    \/ FilterErrorsCall
    \/ FilterErrorsPermuted

SpecFilter == InitFilter /\ [][NextFilter]_vars

\* ------------------------------------------------------ tabular_reg exec
\* run of frameworks/tabular_reg/exec.py after the fit: one pass of the loop
\* of line 268 per test dataset.  A framework string is the list of its
\* pieces, "#" being a piece of its own; the predictor's calls return.

MaxTests == 2

TestNames == {"t1", "t2", "t3"}

\* The keys of test_data.data, or the one dataset_name (lines 263-266).
TestDataDicts ==
    UNION { { l \in [1..n -> TestNames] :
                \A i \in 1..n, j \in 1..n : i # j => l[i] # l[j] } :
            n \in 0..MaxTests }

FrameworkArgs_exec ==
    { <<"AutoGluon">>,
      <<"AutoGluon", "#", "0.8.2">>,
      <<"AutoGluon", "#", "1.0.0">>,
      <<"AutoGluon", "#">>,
      <<"AutoGluon", "#", "0.8.2", "#", "dev">> }

ConstraintArgs == {None, Some("1h8c")}

\* autogluon.tabular.__version__ of the installed library (line 18).
ag_version == "1.0.0"

\* The string that the pieces spell.
RECURSIVE Spell(_)
Spell(pieces) ==
    IF pieces = <<>> THEN "" ELSE Head(pieces) \o Spell(Tail(pieces))

\* str.split("#"): the strings between the "#" pieces, "" where two of them
\* or an end of the string meet.
RECURSIVE split(_)
split(pieces) ==
    IF \A i \in 1..Len(pieces) : pieces[i] # "#"
    THEN <<Spell(pieces)>>
    ELSE LET k == CHOOSE i \in 1..Len(pieces) :
                      pieces[i] = "#" /\ \A j \in 1..(i - 1) : pieces[j] # "#"
         IN  <<Spell(SubSeq(pieces, 1, k - 1))>>
                 \o split(SubSeq(pieces, k + 1, Len(pieces)))

\* Lines 285-288 on the local framework fw (v is the local version): the
\* exception raised ("" when none) and the two locals afterwards.
framework_version(fw, v) ==
    IF \E i \in 1..Len(fw) : fw[i] = "#"
    THEN IF Len(split(fw)) = 2
         THEN [error |-> "", framework |-> <<split(fw)[1]>>,
               version |-> Some(split(fw)[2])]
         ELSE [error |-> "ValueError: unpack", framework |-> fw, version |-> v]
    ELSE [error |-> "", framework |-> fw, version |-> Some(ag_version)]

\* Lines 291-306: the metrics dict and the directory of its results.csv.
metrics_of(dataset_name, fw, v, c) ==
    [path |-> Spell(fw) \o "." \o dataset_name \o "."
                  \o (IF c = None THEN "None" ELSE c[1]) \o ".local/scores",
     task |-> dataset_name,
     framework |-> Spell(fw),
     constraint |-> c,
     version |-> v[1],
     fold |-> 0]

InitExec ==
    /\ FirstIdle
    /\ MainIdle
    /\ StackIdle
    /\ InferIdle
    /\ FilterIdle
    /\ ColumnsIdle
    /\ xpc = "call"
    /\ xerror = ""
    /\ framework_arg \in FrameworkArgs_exec
    /\ framework = framework_arg
    /\ version = None
    /\ constraint \in ConstraintArgs
    /\ test_names \in TestDataDicts
    /\ test_data_dict = test_names
    /\ written = <<>>

\* Lines 223-266: the data is loaded, the predictor fitted.
ExecRun ==
    /\ xpc = "call"
    /\ xpc' = "loop"
    /\ UNCHANGED <<xerror, framework_arg, framework, version, constraint,
                   test_data_dict, test_names, written>>
    /\ UNCHANGED besides_exec

\* Lines 268-322: one pass of the loop; save_metrics (153-178) opens
\* results.csv for writing and writes the one row.
EvaluateDataset ==
    /\ xpc = "loop"
    /\ test_data_dict # <<>>
    /\ LET dataset_name == Head(test_data_dict)
           fv == framework_version(framework, version)
       IN  IF fv.error # ""
           THEN /\ xpc' = "raised"
                /\ xerror' = fv.error
                /\ UNCHANGED <<framework, version, test_data_dict, written>>
           ELSE /\ framework' = fv.framework
                /\ version' = fv.version
                /\ written' = Append(written,
                                     metrics_of(dataset_name, fv.framework,
                                                fv.version, constraint))
                /\ test_data_dict' = Tail(test_data_dict)
                /\ UNCHANGED <<xpc, xerror>>
    /\ UNCHANGED <<framework_arg, constraint, test_names>>
    /\ UNCHANGED besides_exec

\* The loop is over and run returns.
ExecReturn ==
    /\ xpc = "loop"
    /\ test_data_dict = <<>>
    /\ xpc' = "returned"
    /\ UNCHANGED <<xerror, framework_arg, framework, version, constraint,
                   test_data_dict, test_names, written>>
    /\ UNCHANGED besides_exec

NextExec ==
    \/ ExecRun
    \/ EvaluateDataset
    \/ ExecReturn

SpecExec == InitExec /\ [][NextExec]_vars

\* ------------------------------------------------------------ column lists
\* The column lists of __init__ (lines 105-129, 151-154) and the projection of
\* lines 267-268, on a table known by its columns.

\* Lines 107-116.
DefaultColumns ==
    <<"dataset", "fold", "framework", "metric_error", "metric",
      "problem_type", "time_train_s", "time_infer_s">>

ColumnsToKeepArgs ==
    {None, Some(<<>>), Some(<<"dataset", "framework">>),
     Some(<<"framework", "dataset">>), Some(<<"dataset", "dataset">>),
     Some(<<"dataset", "tid">>)}

ColumnsToKeepExtraArgs ==
    {None, Some(<<>>), Some(<<"tid">>), Some(<<"dataset">>),
     Some(<<"tid", "tid">>)}

ColumnArgs ==
    [columns_to_keep : ColumnsToKeepArgs,
     columns_to_keep_extra : ColumnsToKeepExtraArgs,
     filter_columns : BOOLEAN]

\* The columns the result files may have: with and without tid, and without
\* the two time columns.
TableColumns ==
    {DefaultColumns \o <<"tid">>, DefaultColumns, SubSeq(DefaultColumns, 1, 6)}

\* Lines 106-119: the local columns_to_keep after line 119.
columns_to_keep_of(a) ==
    (IF a.columns_to_keep = None THEN DefaultColumns
     ELSE a.columns_to_keep[1])
        \o (IF a.columns_to_keep_extra = None THEN <<>>
            ELSE a.columns_to_keep_extra[1])

\* Lines 120-129: len(set(columns_to_keep)) != len(columns_to_keep).
columns_duplicated(cols) == Cardinality(Range(cols)) # Len(cols)

\* load_data without lines 267-268.
project_columns_never(cols, keep) == [error |-> "", columns |-> cols]

\* Lines 267-268 on a table with columns cols: `if self._columns_to_keep` is
\* false for None and for the empty list; selecting a column the table lacks
\* raises KeyError.
project_columns(cols, keep) ==
    IF keep = None \/ keep = Some(<<>>) THEN [error |-> "", columns |-> cols]
    ELSE IF Range(keep[1]) \subseteq Range(cols)
         THEN [error |-> "", columns |-> keep[1]]
         ELSE [error |-> "KeyError: not in index", columns |-> cols]

InitColumns ==
    /\ FirstIdle
    /\ MainIdle
    /\ StackIdle
    /\ InferIdle
    /\ FilterIdle
    /\ ExecIdle
    /\ colpc = "new"
    /\ colerror = ""
    /\ colargs = NoColumnArgs
    /\ self_columns_to_keep = None
    /\ table_columns \in TableColumns
    /\ returned_columns = None

\* __init__, lines 105-129 and 151-154.
ConstructColumns ==
    /\ colpc = "new"
    /\ \E a \in ColumnArgs :
        /\ colargs' = a
        /\ IF columns_duplicated(columns_to_keep_of(a))
           THEN /\ colpc' = "raised"
                /\ colerror' = "ValueError: duplicate columns"
                /\ UNCHANGED self_columns_to_keep
           ELSE /\ colpc' = "ready"
                /\ colerror' = ""
                /\ self_columns_to_keep' =
                       IF a.filter_columns THEN Some(columns_to_keep_of(a))
                       ELSE None
    /\ UNCHANGED <<table_columns, returned_columns>>
    /\ UNCHANGED besides_columns

\* load_data, lines 267-269.
FilterColumnsReturn ==
    /\ colpc = "ready"
    /\ LET out == project_columns(table_columns, self_columns_to_keep)
       IN  IF out.error # ""
           THEN /\ colpc' = "raised"
                /\ colerror' = out.error
                /\ UNCHANGED returned_columns
           ELSE /\ colpc' = "returned"
                /\ colerror' = ""
                /\ returned_columns' = Some(out.columns)
    /\ UNCHANGED <<colargs, self_columns_to_keep, table_columns>>
    /\ UNCHANGED besides_columns

NextColumns ==
    \/ ConstructColumns
    \/ FilterColumnsReturn

SpecColumns == InitColumns /\ [][NextColumns]_vars

\* ------------------------------------------------------- infer batch size
\* load_data(paths, infer_batch_size=n) with clean_data=False on result files
\* that have a time_infer_s column: the floor of lines 166-169 and then
\* _update_infer_batch_size (lines 239-240, 302-332).  A batch-size column
\* stands for the column of that kind for the n asked for; columns for other
\* batch sizes are left alone by the code and are not in the tables.

MaxInferRows == 1

\* NaN, as a time.
NaN == Seconds(0, 0)

isna(v) == v.den = 0

\* Series.fillna(other), on one row.
fillna(v, w) == IF isna(v) THEN w ELSE v

BatchColumns ==
    {"pred_time_test_with_transform_batch_size_n",
     "pred_time_test_with_transform_n",
     "infer_batch_size_df_n",
     "infer_batch_size_file_n"}

\* The batch-size columns a set of result files has: none, one of them, the
\* two AutoGluon columns, or the two AMLB columns.
BatchColumnSets ==
    {{}} \cup {{c} : c \in BatchColumns}
        \cup {{"pred_time_test_with_transform_batch_size_n",
               "pred_time_test_with_transform_n"},
              {"infer_batch_size_df_n", "infer_batch_size_file_n"}}

\* What a batch-size column holds in a row: nothing, 0 or 0.5 seconds.
BatchTimes == {NaN, Seconds(0, 1), Seconds(1, 2)}

BatchRows(cols) ==
    {r \in [cols \cup {"time_infer_s"} -> InferTimes \cup BatchTimes] :
        /\ r["time_infer_s"] \in InferTimes
        /\ \A c \in cols : r[c] \in BatchTimes}

BatchTables ==
    UNION { {DataFrame(cols \cup {"time_infer_s"}, rows) :
                rows \in UNION {[1..n -> BatchRows(cols)] :
                                   n \in 0..MaxInferRows}} :
            cols \in BatchColumnSets }

BatchSizeArgs == {None, Some(1), Some(2)}

\* Series / infer_batch_size, on one row.
divided(v, n) == IF isna(v) THEN v ELSE Seconds(v.num, v.den * n)

\* _update_infer_batch_size on one row r of a table with columns cols.
update_row(r, cols, n) ==
    LET has(c) == c \in cols
        t1 == IF has("pred_time_test_with_transform_batch_size_n")
              THEN fillna(r["pred_time_test_with_transform_batch_size_n"],
                          r["time_infer_s"])
              ELSE r["time_infer_s"]
        t2 == IF has("pred_time_test_with_transform_n")
              THEN fillna(r["pred_time_test_with_transform_n"], t1)
              ELSE t1
        df == IF has("infer_batch_size_df_n")
              THEN IF has("infer_batch_size_file_n")
                   THEN fillna(r["infer_batch_size_df_n"],
                               r["infer_batch_size_file_n"])
                   ELSE r["infer_batch_size_df_n"]
              ELSE NaN
        t3 == IF has("infer_batch_size_df_n") THEN fillna(df, t2)
              ELSE IF has("infer_batch_size_file_n")
                   THEN fillna(divided(r["infer_batch_size_file_n"], n), t2)
                   ELSE t2
    IN  [c \in cols |->
            IF c = "time_infer_s" THEN t3
            ELSE IF c = "infer_batch_size_df_n" THEN df
            ELSE r[c]]

\* Line 323: the AssertionError for batch sizes other than 1.
update_infer_batch_size_raises(df, n) ==
    "infer_batch_size_df_n" \in df.columns /\ n # 1

\* _update_infer_batch_size, lines 302-332.
update_infer_batch_size(df, n) ==
    DataFrame(df.columns,
        [i \in 1..Len(df.rows) |-> update_row(df.rows[i], df.columns, n)])

InitInfer ==
    /\ FirstIdle
    /\ MainIdle
    /\ StackIdle
    /\ FilterIdle
    /\ ExecIdle
    /\ ColumnsIdle
    /\ bpc = "call"
    /\ berror = ""
    /\ batch_size \in BatchSizeArgs
    /\ bfile \in BatchTables
    /\ bresults = NoFrame

\* Line 226 and _load_results: the files are read and lines 166-169 floor the
\* zero inference times.
InferLoadResults ==
    /\ bpc = "call"
    /\ bresults' = zero_infer_time(bfile)
    /\ bpc' = "loaded"
    /\ UNCHANGED <<berror, batch_size, bfile>>
    /\ UNCHANGED besides_infer

\* Lines 239-240 and the return of line 269; the statements between them leave
\* the time_infer_s of a row as it is.
UpdateInferBatchSize ==
    /\ bpc = "loaded"
    /\ IF batch_size = None
       THEN /\ bpc' = "returned"
            /\ UNCHANGED <<berror, bresults>>
       ELSE /\ bresults' = update_infer_batch_size(bresults, batch_size[1])
            /\ IF update_infer_batch_size_raises(bresults, batch_size[1])
               THEN bpc' = "raised" /\ berror' = "AssertionError: batch size"
               ELSE bpc' = "returned" /\ UNCHANGED berror
    /\ UNCHANGED <<batch_size, bfile>>
    /\ UNCHANGED besides_infer

NextInfer ==
    \/ InferLoadResults
    \/ UpdateInferBatchSize

SpecInfer == InitInfer /\ [][NextInfer]_vars

\* ------------------------------------------------------ static stack
\* tests/unittests/cloud/aws/test_stack.py: an App whose context is set from
\* the test configuration, with or without a VPC_NAME, and the
\* StaticResourceStack built in it with create_s3_resources patched by a mock
\* that counts its calls.  The stack classes are in cloud/aws/batch_stack,
\* outside the sources at hand, and follow the specification.

ContextValues ==
    {v \in [Range(ContextKeys) \cup {"VPC_NAME"}
                -> {None, Some("a"), Some("b")}] :
        /\ v["VPC_NAME"] = None
        /\ \A k \in Range(ContextKeys) : v[k] # None}

VpcNames == {None, Some("ProvidedVpcName"), Some("OtherVpcName")}

\* app.node.set_context that loses the value.
set_context_lost(ctx, key, value) == ctx

\* app.node.set_context(key, value).
set_context(ctx, key, value) == [ctx EXCEPT ![key] = Some(value)]

\* app.node.try_get_context(key).
try_get_context(ctx, key) == ctx[key]

\* StaticResourceStack.__init__: the vpc is looked up by the VPC_NAME of the
\* context and is None without one.
static_stack_vpc(ctx) ==
    IF try_get_context(ctx, "VPC_NAME") = None THEN None
    ELSE try_get_context(ctx, "VPC_NAME")

InitStack ==
    /\ FirstIdle
    /\ MainIdle
    /\ FilterIdle
    /\ ExecIdle
    /\ ColumnsIdle
    /\ InferIdle
    /\ spc = "app"
    /\ context_values \in ContextValues
    /\ app_context = NoContext
    /\ si = 0
    /\ vpc_name = None
    /\ s3_calls = 0
    /\ vpc = None
    /\ batch_vpc = FALSE

\* Lines 19-20, 39-40, 61-62: one pass of the loop over context_values.
SetContextValue ==
    /\ spc = "app"
    /\ si < Len(ContextKeys)
    /\ app_context' = set_context(app_context, ContextKeys[si + 1],
                                  context_values[ContextKeys[si + 1]][1])
    /\ si' = si + 1
    /\ UNCHANGED <<spc, context_values, vpc_name, s3_calls, vpc, batch_vpc>>
    /\ UNCHANGED besides_stack

\* Line 41, or its absence in the tests without a VPC.
SetVpcName ==
    /\ spc = "app"
    /\ si = Len(ContextKeys)
    /\ \E name \in VpcNames :
        /\ vpc_name' = name
        /\ app_context' = IF name = None THEN app_context
                          ELSE set_context(app_context, "VPC_NAME", name[1])
    /\ spc' = "construct"
    /\ UNCHANGED <<context_values, si, s3_calls, vpc, batch_vpc>>
    /\ UNCHANGED besides_stack

\* Lines 30, 51, 74: the constructor calls create_s3_resources, here the mock.
CreateS3Resources ==
    /\ spc = "construct"
    /\ s3_calls' = s3_calls + 1
    /\ spc' = "s3"
    /\ UNCHANGED <<context_values, app_context, si, vpc_name, vpc, batch_vpc>>
    /\ UNCHANGED besides_stack

\* The constructor sets self.vpc and returns.
StaticStackVpc ==
    /\ spc = "s3"
    /\ vpc' = static_stack_vpc(app_context)
    /\ spc' = "constructed"
    /\ UNCHANGED <<context_values, app_context, si, vpc_name, s3_calls,
                   batch_vpc>>
    /\ UNCHANGED besides_stack

\* Lines 82-104: the batch job stack built on a static stack without a VPC
\* has a Vpc of its own.
BatchJobStackConstruct ==
    /\ spc = "constructed"
    /\ vpc = None
    /\ batch_vpc' = TRUE
    /\ spc' = "batch"
    /\ UNCHANGED <<context_values, app_context, si, vpc_name, s3_calls, vpc>>
    /\ UNCHANGED besides_stack

NextStack ==
    \/ SetContextValue
    \/ SetVpcName
    \/ CreateS3Resources
    \/ StaticStackVpc
    \/ BatchJobStackConstruct

SpecStack == InitStack /\ [][NextStack]_vars

\* ------------------------------------------------------------------- run
\* run(config_file, remove_resources) of runbenchmarks.py, lines 231-258.  A
\* config file is known by whether its path starts with "s3", whether its name
\* has "split" in it and the 32 hex digits in its name, if any.  deploy_stack
\* and destroy_stack are the stack handlers of cloud/aws, outside the sources
\* at hand; deploy_stack brings the stack up.  The name args of lines 245 and
\* 249 is bound nowhere: the parameters are config_file and remove_resources.
\* The statement of line 245 therefore raises NameError, and lines 246-254
\* (the lambda call, the wait for the jobs and destroy_stack) are never run.

ConfigFileArgs ==
    [s3 : BOOLEAN, split : BOOLEAN, hex : {None, Some("0a1b")}]

YamlConfigs ==
    [mode : {"aws", "local", "sagemaker"},
     metrics_bucket : {None, Some("bucket")}]

\* _get_split_id, lines 218-227.
get_split_id(file) == IF file.split THEN file.hex ELSE None

InitMain ==
    /\ FirstIdle
    /\ FilterIdle
    /\ ExecIdle
    /\ ColumnsIdle
    /\ InferIdle
    /\ StackIdle
    /\ mpc = "call"
    /\ merror = ""
    /\ config_file \in ConfigFileArgs
    /\ remove_resources \in BOOLEAN
    /\ yaml_configs \in YamlConfigs
    /\ infra_stack = "absent"
    /\ local_split_id = None

\* Lines 237-241: a config file on S3 is downloaded to a local path of the same
\* name, and the file is read.
ReadConfigFile ==
    /\ mpc = "call"
    /\ config_file' = [config_file EXCEPT !.s3 = FALSE]
    /\ mpc' = "loaded"
    /\ UNCHANGED <<merror, remove_resources, yaml_configs, infra_stack,
                   local_split_id>>
    /\ UNCHANGED besides_main

\* Lines 243-244.
DeployStack ==
    /\ mpc = "loaded"
    /\ yaml_configs.mode = "aws"
    /\ infra_stack' = "deployed"
    /\ mpc' = "deployed"
    /\ UNCHANGED <<merror, config_file, remove_resources, yaml_configs,
                   local_split_id>>
    /\ UNCHANGED besides_main

\* Line 245: configs["metrics_bucket"], then args.config_file.
UploadConfigArgs ==
    /\ mpc = "deployed"
    /\ mpc' = "raised"
    /\ merror' = IF yaml_configs.metrics_bucket = None
                 THEN "KeyError: metrics_bucket"
                 ELSE "NameError: args"
    /\ UNCHANGED <<config_file, remove_resources, yaml_configs, infra_stack,
                   local_split_id>>
    /\ UNCHANGED besides_main

\* Lines 255-256.
LocalMode ==
    /\ mpc = "loaded"
    /\ yaml_configs.mode = "local"
    /\ local_split_id' = get_split_id(config_file)
    /\ mpc' = "returned"
    /\ UNCHANGED <<merror, config_file, remove_resources, yaml_configs,
                   infra_stack>>
    /\ UNCHANGED besides_main

\* Lines 257-258.
OtherMode ==
    /\ mpc = "loaded"
    /\ yaml_configs.mode \notin {"aws", "local"}
    /\ mpc' = "raised"
    /\ merror' = "NotImplementedError"
    /\ UNCHANGED <<config_file, remove_resources, yaml_configs, infra_stack,
                   local_split_id>>
    /\ UNCHANGED besides_main

NextMain ==
    \/ ReadConfigFile
    \/ DeployStack
    \/ UploadConfigArgs
    \/ LocalMode
    \/ OtherMode

SpecMain == InitMain /\ [][NextMain]_vars

\* ------------------------------------------------------------------ claims

Returned == pc = "returned"

\* load_data has run _load_results and banned_datasets still holds the
\* argument of the call: the call raised in _load_results, or it is at one of
\* the stages up to the banned-dataset filter.
JustLoaded ==
    \/ pc = "raised" /\ ip = 0 /\ error # "AssertionError: fill options"
    \/ pc = "load_data" /\ stage \in {"", "fold_filter", "problem_type_filter"}
       /\ StageOrder[ip] \in {"fold_filter", "problem_type_filter",
                              "banned_filter"}

\* The rows of the files that are not of a banned dataset.
Banned(r) ==
    banned_datasets # None /\ r.dataset \in Range(banned_datasets[1])

RowsAt(t, f, d, k) ==
    {i \in 1..Len(t) :
        t[i].framework = f /\ t[i].dataset = d /\ t[i].fold = k}

\* C1: in a table load_data returns, no two rows have the same
\* (framework, dataset, fold, metric).
C1_UniqueKeys ==
    Returned =>
        \A i \in 1..Len(results_raw), j \in 1..Len(results_raw) :
            i # j => Key(results_raw[i]) # Key(results_raw[j])

\* The files held one key twice, a fill ran, and a row of that key is returned.
C1_Witness ==
    /\ Returned
    /\ fill_applied # "none"
    /\ \E i \in 1..Len(raw), j \in 1..Len(raw), k \in 1..Len(results_raw) :
        i < j /\ Key(raw[i]) = Key(raw[j]) /\ Key(results_raw[k]) = Key(raw[i])

\* C2: when the loaded results (the rows of datasets that are not banned) give
\* a dataset two different metrics, load_data raises the error that lists the
\* datasets; and in a table load_data returns every dataset has one metric.
C2_OneMetricPerDataset ==
    /\ JustLoaded =>
          ((\E i \in 1..Len(raw), j \in 1..Len(raw) :
                /\ ~Banned(raw[i])
                /\ raw[i].dataset = raw[j].dataset
                /\ raw[i].metric # raw[j].metric)
           => pc = "raised" /\ error = "AssertionError: multiple metrics")
    /\ Returned =>
          \A i \in 1..Len(results_raw), j \in 1..Len(results_raw) :
              results_raw[i].dataset = results_raw[j].dataset
              => results_raw[i].metric = results_raw[j].metric

\* load_data raised on a dataset with two metrics.
C2_Witness ==
    /\ pc = "raised"
    /\ error = "AssertionError: multiple metrics"
    /\ \E i \in 1..Len(raw), j \in 1..Len(raw) :
        raw[i].dataset = raw[j].dataset /\ raw[i].metric # raw[j].metric

\* C3: a metric_error below -1e-8 (-10 units) among the loaded results makes
\* load_data raise; when the smallest is negative but not below -1e-8,
\* _check_results_valid does not raise for it and leaves every negative
\* metric_error at 0 and every other one as it was; no returned table holds a
\* negative metric_error.
C3_NegativeMetricError ==
    LET kept == drop_duplicates(drop_banned(raw, banned_datasets))
    IN  /\ JustLoaded =>
              /\ (\E i \in 1..Len(kept) : kept[i].metric_error < -10)
                     => pc = "raised"
              /\ (\A i \in 1..Len(kept) : kept[i].metric_error >= -10)
                     => error # "AssertionError: negative metric_error"
        /\ (pc = "load_data" /\ ip = 1) =>
              /\ Len(results_raw) = Len(kept)
              /\ \A i \in 1..Len(kept) :
                    /\ Key(results_raw[i]) = Key(kept[i])
                    /\ results_raw[i].metric_error =
                           IF kept[i].metric_error < 0 THEN 0
                           ELSE kept[i].metric_error
        /\ Returned =>
              \A i \in 1..Len(results_raw) : results_raw[i].metric_error >= 0

\* A table was returned in which a metric_error of -1e-9 or -1e-8 is 0.
C3_Witness ==
    /\ Returned
    /\ ~treat_folds_as_datasets
    /\ \E i \in 1..Len(raw), k \in 1..Len(results_raw) :
        /\ raw[i].metric_error < 0
        /\ Key(results_raw[k]) = Key(raw[i])
        /\ results_raw[k].metric_error = 0

\* C4: with error filtering on, a list of folds asked for and the folds kept
\* as folds, a framework that has results for some but not all of those folds
\* of a dataset has no row on that dataset in the returned table.
C4_PartialFoldsDropped ==
    (Returned /\ self.filter_errors /\ ~treat_folds_as_datasets
        /\ folds # None) =>
        \A f \in Frameworks, d \in Datasets :
            ((\E k \in Range(folds[1]) : HasResult(raw, f, d, k))
                /\ (\E k \in Range(folds[1]) : ~HasResult(raw, f, d, k)))
            => \A i \in 1..Len(results_raw) :
                   ~(results_raw[i].framework = f /\ results_raw[i].dataset = d)

\* C5: with error filtering on, the returned table is dense in results that
\* were observed: every framework in it has, on every dataset in it, a row for
\* each fold asked for, and the files held a result for each of them.
C5_DenseAfterFilterErrors ==
    (Returned /\ self.filter_errors /\ ~treat_folds_as_datasets
        /\ folds # None) =>
        \A f \in FrameworksOf(results_raw), d \in DatasetsOf(results_raw),
           k \in Range(folds[1]) :
            /\ Cardinality(RowsAt(results_raw, f, d, k)) = 1
            /\ RowsAt(raw, f, d, k) # {}

\* C6: an evaluator with filter_errors=True runs neither fill: no fill stage
\* runs in its loads and none adds a row to the table.
C6_NoFillWhenFilteringErrors ==
    self.filter_errors => ~(stage = "fill" /\ results_raw # prefill)

\* C7 as stated: an evaluator given both framework_nan_fill and
\* worst_nan_fill=True is rejected.
C7_BothFillsRejected ==
    (pc # "new" /\ args.framework_nan_fill # "None" /\ args.worst_nan_fill)
    => (pc = "raised" /\ error = "AssertionError: fill options")

\* C7, amended: both fill options are rejected when filter_errors is False;
\* with filter_errors=True framework_nan_fill is discarded first and the
\* evaluator is constructed; no evaluator holds both fill options, and a load
\* runs at most the one it holds.
C7_BothFillsRejectedUnlessFiltering ==
    /\ (pc # "new" /\ args.framework_nan_fill # "None" /\ args.worst_nan_fill)
       => IF args.filter_errors
          THEN error # "AssertionError: fill options"
               /\ self.framework_nan_fill = "None"
          ELSE pc = "raised" /\ error = "AssertionError: fill options"
    /\ ~(self.framework_nan_fill # "None" /\ self.worst_nan_fill)
    /\ fill_applied = "default" => self.framework_nan_fill # "None"
    /\ fill_applied = "worst" => self.worst_nan_fill

\* The constructor rejected the two fill options.
C7_Witness ==
    /\ pc = "raised"
    /\ error = "AssertionError: fill options"
    /\ args.framework_nan_fill # "None"
    /\ args.worst_nan_fill

\* The name and the fold a row of the table before the fill has in the
\* returned table.
OutDataset(r) ==
    IF treat_folds_as_datasets THEN r.dataset \o "_" \o ToString(r.fold)
    ELSE r.dataset

OutFold(r) == IF treat_folds_as_datasets THEN 0 ELSE r.fold

\* A result of the reference framework that framework x lacks before the fill.
LacksAt(x, i) ==
    /\ prefill[i].framework = self.framework_nan_fill
    /\ ~HasResult(prefill, x, prefill[i].dataset, prefill[i].fold)

\* C8: with framework_nan_fill set, for every framework asked for and every
\* (dataset, fold) on which it has no result and the reference framework has
\* one, the returned table holds exactly one row of that framework there, and
\* its metric_error is the reference framework's on that (dataset, fold),
\* rounded when round_error_decimals is not None.
C8_FillFromSameDataset ==
    (Returned /\ fill_applied = "default" /\ frameworks # None) =>
        \A x \in Range(frameworks[1]), i \in 1..Len(prefill) :
            LacksAt(x, i) =>
                \E j \in 1..Len(results_raw) :
                    /\ RowsAt(results_raw, x, OutDataset(prefill[i]),
                              OutFold(prefill[i])) = {j}
                    /\ results_raw[j].metric = prefill[i].metric
                    /\ results_raw[j].metric_error =
                           IF round_error_decimals = None
                           THEN prefill[i].metric_error
                           ELSE round_error(prefill[i].metric_error)

\* A framework was filled on two datasets on which the reference framework
\* has different results.
C8_Witness ==
    /\ Returned
    /\ fill_applied = "default"
    /\ frameworks # None
    /\ \E x \in Range(frameworks[1]), i \in 1..Len(prefill),
          j \in 1..Len(prefill) :
        /\ x # self.framework_nan_fill
        /\ LacksAt(x, i)
        /\ LacksAt(x, j)
        /\ prefill[i].dataset # prefill[j].dataset
        /\ prefill[i].metric_error # prefill[j].metric_error

\* C9: with a frameworks list, a table is returned only when the frameworks
\* in it are exactly those asked for; the assertion raises exactly when they
\* differ.
C9_FrameworksComplete ==
    /\ (Returned /\ frameworks # None)
       => FrameworksOf(results_raw) = Range(frameworks[1])
    /\ (pc = "raised" /\ error = "AssertionError: frameworks present")
       => /\ frameworks # None
          /\ FrameworksOf(results_raw) # Range(frameworks[1])

\* The load raised because error filtering removed the last rows of a
\* framework asked for.
C9_Witness ==
    /\ pc = "raised"
    /\ error = "AssertionError: frameworks present"
    /\ self.filter_errors
    /\ \E f \in Range(frameworks[1]) :
        /\ f \notin FrameworksOf(results_raw)
        /\ \E i \in 1..Len(prefill) : prefill[i].framework = f

\* The order of the stages as the specification lists it.
ListedOrder ==
    << "fold_filter", "problem_type_filter", "banned_filter", "valid_filter",
       "infer_batch_size", "fill", "filter_frameworks", "convert_folds",
       "filter_errors", "assert_frameworks", "round_error", "filter_columns" >>

ListedRank(s) ==
    IF s = "" THEN 0
    ELSE CHOOSE n \in 1..Len(ListedOrder) : ListedOrder[n] = s

Unbanned == SelectSeq(raw, LAMBDA r : ~Banned(r))

\* Row i of t is the first row of t with its key.
FirstOfKey(t, i) == \A j \in 1..(i - 1) : Key(t[j]) # Key(t[i])

\* Row r as _check_results_valid leaves it.
Validated(r) ==
    [r EXCEPT !.metric_error = IF r.metric_error < 0 THEN 0 ELSE r.metric_error]

\* C11: of the loaded rows that share a (framework, dataset, fold, metric)
\* exactly the first in load order remains, a row whose key occurs once
\* remains, the rows keep their order, and dropping the others raises
\* nothing: when the load raises, a row that remains is invalid.
C11_KeepFirstOfEachKey ==
    LET src == Unbanned
        firsts == {i \in 1..Len(src) : FirstOfKey(src, i)}
    IN  /\ (pc = "load_data" /\ ip = 1) =>
              /\ Len(results_raw) = Cardinality(firsts)
              /\ \A i \in firsts :
                    results_raw[Cardinality({j \in firsts : j <= i})]
                        = Validated(src[i])
        /\ (JustLoaded /\ pc = "raised") =>
              \E i \in firsts :
                  \/ src[i].metric_error < Eps
                  \/ \E j \in firsts :
                        /\ src[j].dataset = src[i].dataset
                        /\ src[j].metric # src[i].metric

\* Two files held the same key with different values, and the load left the
\* first of the two rows.
C11_Witness ==
    /\ pc = "load_data"
    /\ ip = 1
    /\ Len(raw) = 2
    /\ Key(raw[1]) = Key(raw[2])
    /\ raw[1].metric_error = 900000000
    /\ raw[2].metric_error = 123456700
    /\ results_raw = <<raw[1]>>

\* r is the multiple of RoundUnit nearest to e, the even one on a tie.
NearestEven(e, r) ==
    LET d == IF r >= e THEN r - e ELSE e - r
    IN  /\ r % RoundUnit = 0
        /\ 2 * d <= RoundUnit
        /\ 2 * d = RoundUnit => (r \div RoundUnit) % 2 = 0

\* C12: the rounding stage changes nothing but metric_error; with
\* round_error_decimals = 5 every metric_error becomes the nearest multiple
\* of 1e-5 of the value the stage was entered with, with None it stays as it
\* is; and a table returned with round_error_decimals = 5 holds multiples of
\* 1e-5 only.
C12_RoundedToDecimals ==
    /\ [](Returned /\ round_error_decimals # None =>
              \A i \in 1..Len(results_raw) :
                  results_raw[i].metric_error % RoundUnit = 0)
    /\ [][stage' = "round_error" =>
              /\ Len(results_raw') = Len(results_raw)
              /\ \A i \in 1..Len(results_raw) :
                    /\ [results_raw'[i] EXCEPT !.metric_error = 0]
                           = [results_raw[i] EXCEPT !.metric_error = 0]
                    /\ IF round_error_decimals' = None
                       THEN results_raw'[i].metric_error
                                = results_raw[i].metric_error
                       ELSE NearestEven(results_raw[i].metric_error,
                                        results_raw'[i].metric_error)]_vars

\* A file held 0.1234567 and the table returned holds 0.12346 for it.
C12_Witness ==
    /\ Returned
    /\ round_error_decimals = Some(5)
    /\ \E i \in 1..Len(raw), k \in 1..Len(results_raw) :
        /\ raw[i].metric_error = 123456700
        /\ Key(results_raw[k]) = Key(raw[i])
        /\ results_raw[k].metric_error = 123460000

\* C13: the task-metadata DataFrame the caller gave has the columns and the
\* rows it was given with, whatever calls of task_metadata(),
\* filter_datasets() and load_data() have been made.
C13_TaskMetadataOnlyRead ==
    /\ task_metadata.columns = task_metadata_given.columns
    /\ task_metadata.rows = task_metadata_given.rows

\* C14: after lines 166-169 every row whose time_infer_s was exactly 0 holds
\* 0.001, every other row is as it was loaded, and nothing was raised; a load
\* raises here only in _clean_data, which comes after.
C14_ZeroInferTimeFloored ==
    /\ cpc = "line170" =>
          /\ cerror = ""
          /\ cresults.columns = file_results.columns
          /\ Len(cresults.rows) = Len(file_results.rows)
          /\ \A i \in 1..Len(file_results.rows) :
                IF /\ "time_infer_s" \in file_results.columns
                   /\ file_results.rows[i].time_infer_s.num = 0
                THEN cresults.rows[i] =
                         [file_results.rows[i] EXCEPT
                             !.time_infer_s = [num |-> 1, den |-> 1000]]
                ELSE cresults.rows[i] = file_results.rows[i]
    /\ cpc = "raised" => clean_data /\ cerror = "KeyError: time_infer_s"

\* A file held a row with time_infer_s = 0 and a row with 0.25: the first
\* holds 0.001 and the second 0.25 when line 170 is reached.
C14_Witness ==
    /\ cpc = "line170"
    /\ Len(file_results.rows) = 2
    /\ "time_infer_s" \in file_results.columns
    /\ file_results.rows[1].time_infer_s = [num |-> 0, den |-> 1]
    /\ file_results.rows[2].time_infer_s = [num |-> 1, den |-> 4]
    /\ cresults.rows[1].time_infer_s = [num |-> 1, den |-> 1000]
    /\ cresults.rows[2].time_infer_s = [num |-> 1, den |-> 4]

\* The call of download is over.
DownloadOver == dpc \in {"returned", "raised"}

\* C15: when download is called with retries >= 0 and there is no file at
\* the destination, it requests the url, and when it returns there is a file
\* at the destination, in a directory that exists.
C15_MissingDestinationFetched ==
    (DownloadOver /\ dest_at_call = None /\ dargs.retries >= 0) =>
        /\ attempts >= 1
        /\ dpc = "returned" => dest_file # None /\ dirname_exists

\* C16: when download returns after a call with overwrite=True on a
\* destination that held a file, the destination holds the content that was
\* downloaded last.
C16_OverwriteReplaces ==
    (dpc = "returned" /\ dargs.overwrite /\ dest_at_call # None) =>
        fetched # None /\ dest_file = fetched

\* download raised the failure of its last attempt.
RaisedInLoop ==
    /\ dpc = "raised"
    /\ derror \notin {"AssertionError: retries", "FileNotFoundError"}

C18_ReturnedFileHasSha1 ==
    (dpc = "returned" /\ dargs.sha1_hash # None) =>
        /\ dest_file # None
        /\ sha1sum(dest_file[1]) = dargs.sha1_hash[1]
        /\ (dest_at_call # None
               /\ sha1sum(dest_at_call[1]) # dargs.sha1_hash[1]) =>
              attempts >= 1 /\ dest_file = fetched

\* The destination held an older file, the first download was truncated and
\* counted as a failure, the second one gave the file with the sha1 asked for.
C18_Witness ==
    /\ dpc = "returned"
    /\ dargs.sha1_hash = Some("sha1:new")
    /\ dest_at_call = Some("old")
    /\ attempts = 2
    /\ dest_file = Some("new")

\* C19: when the wait for the jobs is over, every job asked about is
\* SUCCEEDED or FAILED.
C19_WaitsForEveryJob ==
    jpc = "returned" =>
        \A i \in 1..Len(job_ids[1]) :
            job_status[job_ids[1][i]] \in {"SUCCEEDED", "FAILED"}

\* The adapter calls in the order of run_benchmark.
CallOrder == <<"setup", "run", "save_configs", "upload_metrics">>

\* C20: a module other than multimodal and tabular raises
\* NotImplementedError with no adapter created and no adapter method called;
\* multimodal and tabular get their own adapter; the adapter methods are
\* called in the order setup, run, save_configs, upload_metrics, the last one
\* only with a metrics_bucket that is set; and run_benchmark returns after
\* save_configs without a metrics_bucket, after upload_metrics with one.
C20_DispatchAndOrder ==
    /\ (rpc # "call" /\ configs.module \notin {"multimodal", "tabular"}) =>
          /\ rpc = "raised"
          /\ rerror = "NotImplementedError"
          /\ benchmark = None
          /\ calls = <<>>
    /\ (rpc # "call" /\ configs.module = "multimodal") =>
          benchmark = Some("MultiModalBenchmark")
    /\ (rpc # "call" /\ configs.module = "tabular") =>
          benchmark = Some("TabularBenchmark")
    /\ Len(calls) <= Len(CallOrder)
    /\ \A i \in 1..Len(calls) : calls[i] = CallOrder[i]
    /\ Len(calls) = 4 =>
          configs.metrics_bucket \notin {None, Some("")}
    /\ rpc = "returned" =>
          Len(calls) = IF configs.metrics_bucket \in {None, Some("")}
                       THEN 3 ELSE 4

\* run_benchmark returned for the multimodal module with a metrics bucket,
\* after the four adapter calls.
C20_Witness ==
    /\ rpc = "returned"
    /\ configs.module = "multimodal"
    /\ configs.metrics_bucket = Some("bucket")
    /\ calls = CallOrder

\* The rows t holds break _check_results_valid: a dataset with two metrics, or
\* a metric_error below -1e-8.
Offending(t) ==
    \/ \E i \in 1..Len(t), j \in 1..Len(t) :
          t[i].dataset = t[j].dataset /\ t[i].metric # t[j].metric
    \/ \E i \in 1..Len(t) : t[i].metric_error < Eps

PastFilterErrors ==
    \/ Returned
    \/ pc = "load_data" /\ \E i \in 1..(ip - 1) : StageOrder[i] = "filter_errors"

\* The stage of lines 252-254 has been left.
PastConvertFolds ==
    \/ Returned
    \/ pc = "load_data" /\ \E i \in 1..(ip - 1) : StageOrder[i] = "convert_folds"
    \/ pc = "raised" /\ stage \in {"filter_errors", "assert_frameworks"}

ListedIn(t, fw) == IF fw = None THEN FrameworksOf(t) ELSE Range(fw[1])

\* The rows of t whose dataset has n rows of every framework of fs in t.
RowsWithAll(t, fs, n) ==
    SelectSeq(t, LAMBDA r : \A f \in fs : RowsOf(t, f, r.dataset) = n)

\* C26 as stated: filter_errors returns the rows whose dataset has exactly
\* len(folds) rows of every listed framework in the input table, for every
\* fold list, and the same table for every order of the framework list.
C26_RowsWithLenFoldsOfEach ==
    /\ fe_ret # None =>
          fe_ret[1] = RowsWithAll(fe_results_raw,
                                  ListedIn(fe_results_raw, fe_frameworks),
                                  Len(fe_folds))
    /\ fe_permuted_ret # None => fe_permuted_ret = fe_ret

\* C26 amended: every order of the framework list gives the same table; with
\* a fold list that is not empty that table is the rows whose dataset has
\* len(folds) rows of every listed framework in the input table; with an empty
\* fold list it is the input table when no framework is listed and has no
\* row otherwise.
C26_OrderIndependent ==
    LET listed == ListedIn(fe_results_raw, fe_frameworks)
    IN  /\ fe_ret # None =>
              fe_ret[1] =
                  IF Len(fe_folds) > 0
                  THEN RowsWithAll(fe_results_raw, listed, Len(fe_folds))
                  ELSE IF listed = {} THEN fe_results_raw ELSE <<>>
        /\ fe_permuted_ret # None => fe_permuted_ret = fe_ret

\* Two frameworks were listed in both orders over a table in which only the
\* second has its row on the dataset, and both calls returned no row.
C26_Witness ==
    /\ fe_pc = "permuted"
    /\ fe_folds = <<0>>
    /\ fe_frameworks = Some(<<"X", "baseline">>)
    /\ fe_permuted = Some(<<"baseline", "X">>)
    /\ Len(fe_results_raw) > 0
    /\ \A i \in 1..Len(fe_results_raw) :
        fe_results_raw[i].framework = "baseline"
    /\ fe_ret = Some(<<>>)
    /\ fe_permuted_ret = Some(<<>>)

\* The results.csv files after the writes w: for each directory the row of the
\* last write to it.
FilesAfter(w) ==
    {w[i] : i \in {i \in 1..Len(w) :
                       \A j \in (i + 1)..Len(w) : w[j].path # w[i].path}}

\* The name and the version that the framework argument gives: 'name#version'
\* gives both, any other argument is the name and goes with the version of
\* the installed library.
NameOf(arg) ==
    IF \E i \in 1..Len(arg) : arg[i] = "#" THEN split(arg)[1] ELSE Spell(arg)

VersionOf(arg) ==
    IF \E i \in 1..Len(arg) : arg[i] = "#" THEN split(arg)[2] ELSE ag_version

\* C21: when run returns, every test dataset of the run has exactly one
\* metrics record, with task the dataset's name, fold 0 and the framework and
\* version of the framework argument, so that all records of the run have the
\* same framework and version.
C21_OneRecordPerTestDataset ==
    xpc = "returned" =>
        LET files == FilesAfter(written)
        IN  /\ \A n \in Range(test_names) :
                  /\ Cardinality({m \in files : m.task = n}) = 1
                  /\ \A m \in files :
                        m.task = n =>
                            /\ m.fold = 0
                            /\ m.framework = NameOf(framework_arg)
                            /\ m.version = VersionOf(framework_arg)
            /\ \A m \in files : m.task \in Range(test_names)
            /\ \A m1 \in files, m2 \in files :
                  m1.framework = m2.framework /\ m1.version = m2.version

\* The two lists of the constructor, defaults in place, one after the other.
ListedColumns ==
    (IF colargs.columns_to_keep = None THEN DefaultColumns
     ELSE colargs.columns_to_keep[1])
        \o (IF colargs.columns_to_keep_extra = None THEN <<>>
            ELSE colargs.columns_to_keep_extra[1])

\* The constructor has run.
Constructed == colpc # "new"

\* The constructor rejects exactly the lists that name a column twice.
DuplicateRejected ==
    Constructed =>
        ((\E i \in 1..Len(ListedColumns), j \in 1..Len(ListedColumns) :
              i # j /\ ListedColumns[i] = ListedColumns[j])
         <=> colerror = "ValueError: duplicate columns")

C27_NoZeroInferTime ==
    bpc = "returned" =>
        \A i \in 1..Len(bresults.rows) :
            bresults.rows[i]["time_infer_s"].num # 0

RunOver == mpc \in {"returned", "raised"}

====
